---- MODULE Spec2Model ----
(***************************************************************************)
(* Model of the segmentation and structuring services of the RAG backend:  *)
(*   backend/services/chunking_service.py  (ChunkingService)               *)
(*   backend/services/parsing_service.py   (ParsingService)                *)
(*   backend/services/loading_service.py   (LoadingService)                *)
(* A text is a sequence of one-character strings.  A Page Model is a       *)
(* sequence of page records [page, text].                                  *)
(***************************************************************************)
EXTENDS Integers, Sequences, FiniteSets, TLC

VARIABLES
    page_map,   \* the Page Model handed to the services
    metadata,   \* the metadata dict handed to the services
    call,       \* the arguments of the last call made
    result,     \* what the last call returned or raised
    first,      \* the first chunk_text call of the run and its result
    clock,      \* the calls made so far; the next call reads datetime.now() = clock + 1
    total_pages,        \* LoadingService.total_pages
    current_page_map    \* LoadingService.current_page_map

vars == <<page_map, metadata, call, result, first, clock, total_pages, current_page_map>>

\* LoadingService.__init__
LoadingServiceInit == total_pages = 0 /\ current_page_map = <<>>

----------------------------------------------------------------------------
(* Bounds of the model. *)

MaxPages == 2        \* page records in a Page Model
MaxChunkSize == 3    \* chunk_size values 1..MaxChunkSize are tried
MaxTime == 3         \* calls made on one service instance in a run of repeated calls

MaxPageNo == MaxPages + 1   \* page numbers are drawn from 1..MaxPageNo

----------------------------------------------------------------------------
(* Python str primitives. *)

Whitespace == {" ", "\n", "\t"}
UpperChars == {"A", "B", "C", "D", "E", "H", "I", "M", "N", "O", "R", "S", "T", "U"}
LowerChars == {"a", "b", "c", "d", "e", "m", "n", "o", "p", "t", "w", "y"}

SetMin(S) == CHOOSE m \in S : \A k \in S : m <= k
SetMax(S) == CHOOSE m \in S : \A k \in S : m >= k

NonWs(t) == {i \in DOMAIN t : t[i] \notin Whitespace}

\* str.strip()
Strip(t) == IF NonWs(t) = {} THEN <<>> ELSE SubSeq(t, SetMin(NonWs(t)), SetMax(NonWs(t)))

\* mutant: the number of characters instead of the number of words
WordCountOfCharacters(t) == Len(t)

\* len(str.split()): the number of maximal runs of non-whitespace characters
WordCount(t) == Cardinality({i \in NonWs(t) : i = 1 \/ t[i - 1] \in Whitespace})

\* the positions at which s occurs in t
Occurrences(t, s) == {i \in 1..(Len(t) - Len(s) + 1) : SubSeq(t, i, i + Len(s) - 1) = s}

\* s in t
Contains(t, s) == Occurrences(t, s) # {}

\* str.split(sep) for a non-empty sep: leftmost non-overlapping matches, empty pieces kept
RECURSIVE PySplit(_, _)
PySplit(t, sep) ==
    IF Occurrences(t, sep) = {} THEN <<t>>
    ELSE LET i == SetMin(Occurrences(t, sep))
         IN  <<SubSeq(t, 1, i - 1)>> \o PySplit(SubSeq(t, i + Len(sep), Len(t)), sep)

\* sep.join(parts)
RECURSIVE Join(_, _)
Join(parts, sep) ==
    IF parts = <<>> THEN <<>>
    ELSE IF Len(parts) = 1 THEN parts[1]
    ELSE parts[1] \o sep \o Join(Tail(parts), sep)

\* str.endswith(suffix)
EndsWith(t, suffix) ==
    Len(t) >= Len(suffix) /\ SubSeq(t, Len(t) - Len(suffix) + 1, Len(t)) = suffix

LowerOf(c) ==
    CASE c = "M" -> "m"
      [] c = "D" -> "d"
      [] c = "A" -> "a"
      [] c = "B" -> "b"
      [] OTHER -> c

\* str.lower()
Lower(t) == [i \in DOMAIN t |-> LowerOf(t[i])]

DigitChars == <<"0", "1", "2", "3", "4", "5", "6", "7", "8", "9">>

\* str(n) for a non-negative integer
RECURSIVE IntToStr(_)
IntToStr(n) ==
    IF n < 10 THEN <<DigitChars[n + 1]>>
    ELSE IntToStr(n \div 10) \o <<DigitChars[(n % 10) + 1]>>

\* [x for x in xs if x != ""]
RECURSIVE DropEmpty(_)
DropEmpty(xs) ==
    IF xs = <<>> THEN <<>>
    ELSE IF Head(xs) = <<>> THEN DropEmpty(Tail(xs))
    ELSE <<Head(xs)>> \o DropEmpty(Tail(xs))

Min2(a, b) == IF a <= b THEN a ELSE b

----------------------------------------------------------------------------
(* langchain's RecursiveCharacterTextSplitter (keep_separator=True,        *)
(* strip_whitespace=True, length_function=len), as chunking_service.py     *)
(* constructs it.                                                          *)

\* _split_text_with_regex: each separator stays in front of the piece after it
SplitKeep(t, sep) ==
    IF sep = <<>> THEN [i \in 1..Len(t) |-> <<t[i]>>]
    ELSE LET ps == PySplit(t, sep)
         IN  DropEmpty([i \in 1..Len(ps) |-> IF i = 1 THEN ps[1] ELSE sep \o ps[i]])

\* _join_docs with separator "": the stripped text, or nothing when it is empty
JoinDocs(docs) == LET s == Strip(Join(docs, <<>>)) IN IF s = <<>> THEN <<>> ELSE <<s>>

\* the while loop of _merge_splits: drop leading pieces of the current window
RECURSIVE ShrinkWindow(_, _, _, _)
ShrinkWindow(cur, len, size, overlap) ==
    LET total == Len(Join(cur, <<>>))
    IN  IF total > overlap \/ (total + len > size /\ total > 0)
        THEN ShrinkWindow(Tail(cur), len, size, overlap)
        ELSE cur

\* _merge_splits with separator "" (keep_separator=True)
RECURSIVE MergeSplits(_, _, _, _, _)
MergeSplits(splits, cur, docs, size, overlap) ==
    IF splits = <<>> THEN docs \o JoinDocs(cur)
    ELSE LET d == Head(splits)
         IN  IF Len(Join(cur, <<>>)) + Len(d) > size /\ cur # <<>>
             THEN MergeSplits(Tail(splits),
                              Append(ShrinkWindow(cur, Len(d), size, overlap), d),
                              docs \o JoinDocs(cur), size, overlap)
             ELSE MergeSplits(Tail(splits), Append(cur, d), docs, size, overlap)

\* the separator _split_text picks: the first one that is "" or occurs in the text
SepIndex(t, seps) ==
    LET hits == {i \in DOMAIN seps : seps[i] = <<>> \/ Contains(t, seps[i])}
    IN  IF hits = {} THEN 0 ELSE SetMin(hits)

\* RecursiveCharacterTextSplitter._split_text
RECURSIVE SplitText(_, _, _, _)
RECURSIVE SplitLoop(_, _, _, _, _, _)
SplitLoop(splits, good, final, newseps, size, overlap) ==
    IF splits = <<>>
    THEN IF good # <<>> THEN final \o MergeSplits(good, <<>>, <<>>, size, overlap) ELSE final
    ELSE LET s == Head(splits)
         IN  IF Len(s) < size
             THEN SplitLoop(Tail(splits), Append(good, s), final, newseps, size, overlap)
             ELSE LET flushed == IF good # <<>>
                                 THEN final \o MergeSplits(good, <<>>, <<>>, size, overlap)
                                 ELSE final
                      deeper == IF newseps = <<>> THEN <<s>>
                                ELSE SplitText(s, newseps, size, overlap)
                  IN  SplitLoop(Tail(splits), <<>>, flushed \o deeper, newseps, size, overlap)

SplitText(t, seps, size, overlap) ==
    LET k == SepIndex(t, seps)
        sep == IF k = 0 THEN seps[Len(seps)] ELSE seps[k]
        newseps == IF k = 0 \/ sep = <<>> THEN <<>> ELSE SubSeq(seps, k + 1, Len(seps))
    IN  SplitLoop(SplitKeep(t, sep), <<>>, <<>>, newseps, size, overlap)

----------------------------------------------------------------------------
(* ChunkingService: the per-page splitters. *)

MaxOverlap == 200
ParagraphChunkSize == 1000
SentenceChunkSize == 1000
MarkdownBlockSize == 2000

FixedSeparators == << <<"\n", "\n">>, <<"\n">>, <<".", " ">>, <<" ">>, <<>> >>
SentenceSeparators == << <<".">>, <<"!">>, <<"?">>, <<"\n">>, <<" ">> >>
\* MarkdownTextSplitter's separators; its heading and rule patterns are given by
\* one literal instance each, and the code fence is left out (no text of the
\* model holds one)
MarkdownSeparators ==
    << <<"\n", "#", " ">>, <<"\n", "*", "*", "*", "\n">>,
       <<"\n", "-", "-", "-", "\n">>, <<"\n", "_", "_", "_", "\n">>,
       <<"\n", "\n">>, <<"\n">>, <<" ">>, <<>> >>

\* mutant: a fifth of the chunk size instead of a tenth
ChunkOverlapFifth(chunk_size) == Min2(MaxOverlap, chunk_size \div 5)

\* min(200, int(chunk_size * 0.1))
ChunkOverlap(chunk_size) == Min2(MaxOverlap, chunk_size \div 10)

_fixed_size_chunks(text, chunk_size) ==
    IF Strip(text) = <<>> THEN <<>>
    ELSE SplitText(text, FixedSeparators, chunk_size, ChunkOverlap(chunk_size))

RECURSIVE StripNonBlank(_)
StripNonBlank(ps) ==
    IF ps = <<>> THEN <<>>
    ELSE IF Strip(Head(ps)) # <<>> THEN <<Strip(Head(ps))>> \o StripNonBlank(Tail(ps))
    ELSE StripNonBlank(Tail(ps))

_paragraph_chunks(text) == StripNonBlank(PySplit(text, <<"\n", "\n">>))

_markdown_paragraph_chunks(text) == SplitText(text, MarkdownSeparators, ParagraphChunkSize, 0)

_sentence_chunks(text) == SplitText(text, SentenceSeparators, SentenceChunkSize, 0)

RECURSIVE SentencesOfBlocks(_)
SentencesOfBlocks(blocks) ==
    IF blocks = <<>> THEN <<>>
    ELSE LET ss == SplitText(Head(blocks), SentenceSeparators, SentenceChunkSize, 0)
         IN  SelectSeq(ss, LAMBDA s : Strip(s) # <<>>) \o SentencesOfBlocks(Tail(blocks))

_markdown_sentence_chunks(text) ==
    SentencesOfBlocks(SplitText(text, MarkdownSeparators, MarkdownBlockSize, 0))

----------------------------------------------------------------------------
(* ChunkingService.chunk_text *)

\* a call's outcome: the returned document, or the exception raised together
\* with the content list as it stood when the exception left the method; handle
\* tells what became of the raw document handle ("none": never opened)
NoDoc == [absent |-> TRUE]
Return(doc) ==
    [status |-> "ok", error |-> "", doc |-> doc, partial |-> <<>>, handle |-> "none"]
Raise(msg, built) ==
    [status |-> "error", error |-> msg, doc |-> NoDoc, partial |-> built, handle |-> "none"]

NoValue == [some |-> FALSE]
Some(v) == [some |-> TRUE, val |-> v]

\* mutant: the guard written as "page_map is None"
NotPageMapNoneOnly(pm) == ~pm.given

\* not page_map: the argument was left out (None) or is the empty list
NotPageMap(pm) == ~pm.given \/ pm.pages = <<>>

\* metadata.get(key, "")
MetaGet(md, key, default) == IF key \in DOMAIN md THEN md[key] ELSE default

\* "markdown" if filename.lower().endswith('.md') else "pdf"
FileType(md) ==
    IF EndsWith(Lower(MetaGet(md, "filename", <<>>)), <<".", "m", "d">>)
    THEN "markdown" ELSE "pdf"

\* mutant: the chunk list outlives the call (kept on the instance, never reset)
InitialChunksKept ==
    IF result.status = "ok" /\ call.op = "chunk_text" THEN result.doc.chunks ELSE <<>>

\* chunks = []
InitialChunks == <<>>

\* mutant: chunk ids counted from 0
NextChunkIdZeroBased(chunks) == Len(chunks)

\* "chunk_id": len(chunks) + 1
NextChunkId(chunks) == Len(chunks) + 1

\* one chunks.append({...}) of chunk_text
AppendChunk(chunks, page_data, content) ==
    Append(chunks,
           [content |-> content,
            metadata |-> [chunk_id |-> NextChunkId(chunks),
                          page_number |-> page_data.page,
                          page_range |-> IntToStr(page_data.page),
                          word_count |-> WordCount(content)]])

RECURSIVE AppendChunks(_, _, _)
AppendChunks(chunks, page_data, texts) ==
    IF texts = <<>> THEN chunks
    ELSE AppendChunks(AppendChunk(chunks, page_data, Head(texts)), page_data, Tail(texts))

NonBlank(texts) == SelectSeq(texts, LAMBDA t : Strip(t) # <<>>)

\* the chunk texts one page contributes under a recognized method
PageTexts(method, file_type, text, chunk_size) ==
    CASE method = "by_pages" -> <<text>>
      [] method = "fixed_size" -> _fixed_size_chunks(text, chunk_size)
      [] method = "by_paragraphs" ->
            NonBlank(IF file_type = "markdown" THEN _markdown_paragraph_chunks(text)
                     ELSE _paragraph_chunks(text))
      [] method = "by_sentences" ->
            NonBlank(IF file_type = "markdown" THEN _markdown_sentence_chunks(text)
                     ELSE _sentence_chunks(text))

\* mutant: the texts of all pages are joined and split as one page, under the
\* last record's page number
ChunkPagesMerged(pages, chunks, method, file_type, chunk_size) ==
    IF pages = <<>> THEN chunks
    ELSE AppendChunks(chunks, pages[Len(pages)],
                      PageTexts(method, file_type,
                                Join([i \in DOMAIN pages |-> pages[i].text], <<"\n">>),
                                chunk_size))

\* for page_data in page_map: ...
RECURSIVE ChunkPages(_, _, _, _, _)
ChunkPages(pages, chunks, method, file_type, chunk_size) ==
    IF pages = <<>> THEN chunks
    ELSE ChunkPages(Tail(pages),
                    AppendChunks(chunks, Head(pages),
                                 PageTexts(method, file_type, Head(pages).text, chunk_size)),
                    method, file_type, chunk_size)

ChunkMethods == {"by_pages", "fixed_size", "by_paragraphs", "by_sentences"}

\* mutant: an unknown method yields an empty document instead of an error
UnsupportedChunkingSwallowed(chunks) ==
    Return([total_chunks |-> Len(chunks), chunking_method |-> "", chunks |-> chunks])

\* the else branch of the method dispatch
UnsupportedChunking(chunks) == Raise("Unsupported chunking method", chunks)

\* document_data
ChunkDocument(pm, method, md, chunk_size, now, chunks) ==
    [filename |-> MetaGet(md, "filename", <<>>),
     total_chunks |-> Len(chunks),
     total_pages |-> Len(pm.pages),
     loading_method |-> MetaGet(md, "loading_method", ""),
     chunking_method |-> method,
     file_type |-> FileType(md),
     chunk_size |-> IF method = "fixed_size" THEN Some(chunk_size) ELSE NoValue,
     timestamp |-> now,
     chunks |-> chunks]

chunk_text(pm, method, md, chunk_size, now) ==
    IF NotPageMap(pm) THEN Raise("Page map is required for chunking.", <<>>)
    ELSE IF method \in ChunkMethods
    THEN Return(ChunkDocument(pm, method, md, chunk_size, now,
                              ChunkPages(pm.pages, InitialChunks, method, FileType(md),
                                         chunk_size)))
    ELSE UnsupportedChunking(InitialChunks)

----------------------------------------------------------------------------
(* ParsingService: the strategies that read the Page Model only. *)

_parse_all_text(pages) ==
    [i \in DOMAIN pages |-> [type |-> "Text", content |-> pages[i].text, page |-> pages[i].page]]

_parse_by_pages(pages) ==
    [i \in DOMAIN pages |-> [type |-> "Page", page |-> pages[i].page, content |-> pages[i].text]]

TitleMaxLen == 60
DefaultPage == 1

\* str.isupper(): a cased character exists and no cased character is lower-case
IsUpper(line) ==
    /\ \E i \in DOMAIN line : line[i] \in UpperChars
    /\ \A i \in DOMAIN line : line[i] \notin LowerChars

\* mutant: a trimmed length of 60 still counts as a title
IsTitleLineAtMost(line) == Len(Strip(line)) <= TitleMaxLen /\ IsUpper(line)

\* len(line.strip()) < 60 and line.isupper()
IsTitleLine(line) == Len(Strip(line)) < TitleMaxLen /\ IsUpper(line)

\* if current_title: (neither None nor "")
HasTitle(st) == st.current_title.some /\ st.current_title.val # <<>>

SectionOf(st) ==
    [type |-> "section", title |-> st.current_title.val,
     content |-> Join(st.current_content, <<"\n">>), page |-> st.current_page]

\* the section the scan closes when a title line opens the next one
FlushSection(st) == IF HasTitle(st) THEN Append(st.parsed_content, SectionOf(st))
                    ELSE st.parsed_content

\* mutant: a closed section takes the page of the heading that closes it
TitleStepClosingPage(st, line, page) ==
    IF IsTitleLine(line)
    THEN [parsed_content |-> FlushSection([st EXCEPT !.current_page = page]),
          current_title |-> Some(Strip(line)),
          current_content |-> <<>>, current_page |-> page]
    ELSE [st EXCEPT !.current_content = Append(@, line)]

\* the body of the inner loop of _parse_by_titles, for one line of one page
TitleStep(st, line, page) ==
    IF IsTitleLine(line)
    THEN [parsed_content |-> FlushSection(st), current_title |-> Some(Strip(line)),
          current_content |-> <<>>, current_page |-> page]
    ELSE [st EXCEPT !.current_content = Append(@, line)]

RECURSIVE TitleLines(_, _, _)
TitleLines(st, lines, page) ==
    IF lines = <<>> THEN st
    ELSE TitleLines(TitleStep(st, Head(lines), page), Tail(lines), page)

RECURSIVE TitlePages(_, _)
TitlePages(st, pages) ==
    IF pages = <<>> THEN st
    ELSE TitlePages(TitleLines(st, PySplit(Head(pages).text, <<"\n">>), Head(pages).page),
                    Tail(pages))

_parse_by_titles(pages) ==
    FlushSection(TitlePages([parsed_content |-> <<>>, current_title |-> NoValue,
                             current_content |-> <<>>, current_page |-> DefaultPage],
                            pages))

----------------------------------------------------------------------------
(* Table canonicalization. *)

\* "| " + " | ".join(cells) + " |"
PipeLine(cells) == <<"|", " ">> \o Join(cells, <<" ", "|", " ">>) \o <<" ", "|">>

\* mutant: the separator repeats --- once per row instead of once per header cell
TableLinesSeparatorByRows(rows) ==
    <<PipeLine(rows[1]), PipeLine([i \in DOMAIN rows |-> <<"-", "-", "-">>])>>
        \o [i \in 1..(Len(rows) - 1) |-> PipeLine(rows[i + 1])]

\* the lines _convert_to_markdown_table joins: header, separator, one per other row
TableLines(rows) ==
    <<PipeLine(rows[1]), PipeLine([i \in DOMAIN rows[1] |-> <<"-", "-", "-">>])>>
        \o [i \in 1..(Len(rows) - 1) |-> PipeLine(rows[i + 1])]

_convert_to_markdown_table(rows) ==
    IF rows = <<>> THEN <<>> ELSE Join(TableLines(rows), <<"\n">>)

\* An HTML table is its sections in document order, each [kind, rows] with kind
\* "thead", "tbody" or "bare" (rows directly under <table>); a row is a sequence
\* of cells [tag, text]; gap is the text between the tags.
RECURSIVE Flatten(_)
Flatten(xss) == IF xss = <<>> THEN <<>> ELSE Head(xss) \o Flatten(Tail(xss))

SectionsOf(table, kind) == SelectSeq(table.sections, LAMBDA sec : sec.kind = kind)
AllRows(table) == Flatten([i \in DOMAIN table.sections |-> table.sections[i].rows])
CellTexts(cells) == [i \in DOMAIN cells |-> Strip(cells[i].text)]
TdOnly(row) == SelectSeq(row, LAMBDA c : c.tag = "td")
ThOnly(row) == SelectSeq(row, LAMBDA c : c.tag = "th")

\* table.get_text()
GetText(table) ==
    LET cells == Flatten(AllRows(table))
    IN  Join([i \in DOMAIN cells |-> cells[i].text], table.gap)

\* mutant: a row without td cells is kept as an empty row
BodyRowsKeepEmpty(trs) == [i \in DOMAIN trs |-> CellTexts(TdOnly(trs[i]))]

\* rows of td texts, the rows without td left out
RECURSIVE BodyRows(_)
BodyRows(trs) ==
    IF trs = <<>> THEN <<>>
    ELSE IF TdOnly(Head(trs)) # <<>>
         THEN <<CellTexts(TdOnly(Head(trs)))>> \o BodyRows(Tail(trs))
         ELSE BodyRows(Tail(trs))

HtmlHeaderRows(table) ==
    IF SectionsOf(table, "thead") # <<>>
    THEN <<CellTexts(ThOnly(Flatten(SectionsOf(table, "thead")[1].rows)))>>
    ELSE IF AllRows(table) # <<>> THEN <<CellTexts(AllRows(table)[1])>>
    ELSE <<>>

HtmlBodyRows(table) ==
    IF SectionsOf(table, "tbody") # <<>>
    THEN BodyRows(SectionsOf(table, "tbody")[1].rows)
    ELSE IF AllRows(table) = <<>> THEN <<>>
    ELSE BodyRows(Tail(AllRows(table)))

_html_table_to_markdown(table) ==
    _convert_to_markdown_table(HtmlHeaderRows(table) \o HtmlBodyRows(table))

----------------------------------------------------------------------------
(* ParsingService: the strategies that re-open the source document.        *)
(* A PDF source is [opens, pages]: whether fitz.open succeeds and, per     *)
(* document page, [finds, tables, images]: whether find_tables succeeds,   *)
(* the tables found (grids of cells [kind, text], kind "text", "none" or   *)
(* "raises" when get_text of the cell raises) and the images               *)
(* [extracts, ocr_ok, text].                                               *)

TextElement(page_data) == [type |-> "text", content |-> page_data.text, page |-> page_data.page]

\* the except branch: one text element per page, appended to parsed_content
FallbackText(parsed_content, pages) ==
    parsed_content \o [i \in DOMAIN pages |-> TextElement(pages[i])]

TableRaises(table) ==
    \E r \in DOMAIN table : \E c \in DOMAIN table[r] : table[r][c].kind = "raises"

\* rows: "" for an empty cell, the stripped cell text otherwise
TableRows(table) ==
    [r \in DOMAIN table |->
        [c \in DOMAIN table[r] |->
            IF table[r][c].kind = "none" THEN <<>> ELSE Strip(table[r][c].text)]]

\* the table loop of one page: [content, raised]
RECURSIVE PdfTables(_, _, _, _)
PdfTables(parsed_content, tables, idx, page_num) ==
    IF idx > Len(tables) THEN [content |-> parsed_content, raised |-> FALSE]
    ELSE IF TableRaises(tables[idx]) THEN [content |-> parsed_content, raised |-> TRUE]
    ELSE PdfTables(Append(parsed_content,
                          [type |-> "table",
                           content |-> _convert_to_markdown_table(TableRows(tables[idx])),
                           page |-> page_num, table_index |-> idx]),
                   tables, idx + 1, page_num)

\* _extract_text_from_image: "" when the OCR raises
_extract_text_from_image(image) == IF image.ocr_ok THEN image.text ELSE <<>>

RECURSIVE PdfImages(_, _, _, _)
\* mutant: the try around the whole loop, so the first image whose extraction
\* raises ends the loop
PdfImagesAbort(parsed_content, images, idx, page_num) ==
    IF idx > Len(images) \/ ~images[idx].extracts THEN parsed_content
    ELSE LET image_text == _extract_text_from_image(images[idx])
         IN  PdfImages(IF Strip(image_text) # <<>>
                       THEN Append(parsed_content,
                                   [type |-> "image", content |-> image_text,
                                    page |-> page_num, image_index |-> idx])
                       ELSE parsed_content,
                       images, idx + 1, page_num)

\* mutant: an image is emitted whenever its bytes were extracted, blank OCR
\* text or not
PdfImagesKeepBlank(parsed_content, images, idx, page_num) ==
    IF idx > Len(images) THEN parsed_content
    ELSE PdfImages(IF images[idx].extracts
                   THEN Append(parsed_content,
                               [type |-> "image",
                                content |-> _extract_text_from_image(images[idx]),
                                page |-> page_num, image_index |-> idx])
                   ELSE parsed_content,
                   images, idx + 1, page_num)

\* the image loop of one page; an image whose extraction raises is skipped
PdfImages(parsed_content, images, idx, page_num) ==
    IF idx > Len(images) THEN parsed_content
    ELSE LET image_text == _extract_text_from_image(images[idx])
             keep == images[idx].extracts /\ Strip(image_text) # <<>>
         IN  PdfImages(IF keep
                       THEN Append(parsed_content,
                                   [type |-> "image", content |-> image_text,
                                    page |-> page_num, image_index |-> idx])
                       ELSE parsed_content,
                       images, idx + 1, page_num)

\* the page loop of _parse_pdf_text_and_tables (with_images FALSE) and of
\* _parse_pdf_full (with_images TRUE): [content, raised]
RECURSIVE PdfPages(_, _, _, _)
\* mutant: the text element of a page is appended before the page's tables
PdfPagesTextFirst(parsed_content, doc, pages, with_images) ==
    IF pages = <<>> THEN [content |-> parsed_content, raised |-> FALSE]
    ELSE LET page_num == Head(pages).page
         IN  IF page_num > Len(doc.pages) \/ ~doc.pages[page_num].finds
             THEN [content |-> parsed_content, raised |-> TRUE]
             ELSE LET t == PdfTables(Append(parsed_content, TextElement(Head(pages))),
                                     doc.pages[page_num].tables, 1, page_num)
                      withImages == IF with_images
                                    THEN PdfImages(t.content, doc.pages[page_num].images,
                                                   1, page_num)
                                    ELSE t.content
                  IN  IF t.raised THEN t
                      ELSE PdfPages(withImages, doc, Tail(pages), with_images)

PdfPages(parsed_content, doc, pages, with_images) ==
    IF pages = <<>> THEN [content |-> parsed_content, raised |-> FALSE]
    ELSE LET page_num == Head(pages).page
         IN  IF page_num > Len(doc.pages) \/ ~doc.pages[page_num].finds
             THEN [content |-> parsed_content, raised |-> TRUE]
             ELSE LET t == PdfTables(parsed_content, doc.pages[page_num].tables, 1, page_num)
                      withImages == IF with_images
                                    THEN PdfImages(t.content, doc.pages[page_num].images,
                                                   1, page_num)
                                    ELSE t.content
                  IN  IF t.raised THEN t
                      ELSE PdfPages(Append(withImages, TextElement(Head(pages))),
                                    doc, Tail(pages), with_images)

\* try: ... doc.close()  except: fallback; handle tells what became of the
\* document handle
PdfStrategy(doc, pages, with_images) ==
    IF ~doc.opens THEN [content |-> FallbackText(<<>>, pages), handle |-> "none"]
    ELSE LET r == PdfPages(<<>>, doc, pages, with_images)
         IN  IF r.raised THEN [content |-> FallbackText(r.content, pages), handle |-> "open"]
             ELSE [content |-> r.content, handle |-> "closed"]

_parse_pdf_text_and_tables(doc, pages) == PdfStrategy(doc, pages, FALSE)

_parse_pdf_full(doc, pages) == PdfStrategy(doc, pages, TRUE)

(* A Markdown source is [renders, tables, imgs, partitions, elements]:     *)
(* whether markdown.markdown succeeds, the <table> and <img> elements of   *)
(* the HTML, whether partition_md succeeds and the elements it returns.    *)

\* mutant: the last page record whose text contains s wins
RECURSIVE PageContainingLast(_, _)
PageContainingLast(pages, s) ==
    IF pages = <<>> THEN DefaultPage
    ELSE IF Contains(pages[Len(pages)].text, s) THEN pages[Len(pages)].page
    ELSE PageContainingLast(SubSeq(pages, 1, Len(pages) - 1), s)

\* the page of the first page record whose text contains s, DefaultPage if none
RECURSIVE PageContaining(_, _)
PageContaining(pages, s) ==
    IF pages = <<>> THEN DefaultPage
    ELSE IF Contains(Head(pages).text, s) THEN Head(pages).page
    ELSE PageContaining(Tail(pages), s)

\* the table loop of the Markdown branches
HtmlTableElements(tables, pages) ==
    [i \in DOMAIN tables |->
        [type |-> "table", content |-> _html_table_to_markdown(tables[i]),
         page |-> PageContaining(pages, GetText(tables[i])), table_index |-> i]]

\* str.replace(old, "")
Remove(t, old) == IF old = <<>> THEN t ELSE Join(PySplit(t, old), <<>>)

RECURSIVE RemoveTables(_, _)
RemoveTables(page_text, tables) ==
    IF tables = <<>> THEN page_text
    ELSE RemoveTables(Remove(page_text, GetText(Head(tables))), Tail(tables))

RECURSIVE RemainingText(_, _)
RemainingText(pages, tables) ==
    IF pages = <<>> THEN <<>>
    ELSE LET page_text == RemoveTables(Head(pages).text, tables)
         IN  (IF Strip(page_text) # <<>>
              THEN <<[type |-> "text", content |-> Strip(page_text), page |-> Head(pages).page]>>
              ELSE <<>>) \o RemainingText(Tail(pages), tables)

_parse_markdown_text_and_tables(md, pages) ==
    [handle |-> "none",
     content |->
        IF ~md.renders THEN FallbackText(<<>>, pages)
        ELSE IF md.tables # <<>>
        THEN HtmlTableElements(md.tables, pages) \o RemainingText(pages, md.tables)
        ELSE FallbackText(<<>>, pages)]

StartsWith(t, prefix) == Len(t) >= Len(prefix) /\ SubSeq(t, 1, Len(prefix)) = prefix

Http == <<"h", "t", "t", "p", ":", "/", "/">>
Https == <<"h", "t", "t", "p", "s", ":", "/", "/">>

\* the first page whose text contains the alt text or the src, DefaultPage if none
RECURSIVE ImagePage(_, _)
ImagePage(pages, img) ==
    IF pages = <<>> THEN DefaultPage
    ELSE IF Contains(Head(pages).text, img.alt) \/ Contains(Head(pages).text, img.src)
    THEN Head(pages).page
    ELSE ImagePage(Tail(pages), img)

\* the <img> loop of _parse_markdown_full: local, existing files are read by OCR
RECURSIVE HtmlImages(_, _, _, _)
HtmlImages(parsed_content, imgs, idx, pages) ==
    IF idx > Len(imgs) THEN parsed_content
    ELSE LET img == imgs[idx]
             image_text == _extract_text_from_image(img)
             keep == /\ img.src # <<>>
                     /\ ~StartsWith(img.src, Http) /\ ~StartsWith(img.src, Https)
                     /\ img.exists
                     /\ Strip(image_text) # <<>>
         IN  HtmlImages(IF keep
                        THEN Append(parsed_content,
                                    [type |-> "image", content |-> image_text,
                                     page |-> ImagePage(pages, img), image_index |-> idx,
                                     image_alt |-> img.alt, image_src |-> img.src])
                        ELSE parsed_content,
                        imgs, idx + 1, pages)

\* elem.category.lower()
CategoryLower(category) ==
    CASE category = "Title" -> "title"
      [] category = "NarrativeText" -> "narrativetext"
      [] category = "ListItem" -> "listitem"
      [] OTHER -> category

\* the element loop of _parse_markdown_full
RECURSIVE PartitionElements(_, _)
PartitionElements(elements, pages) ==
    IF elements = <<>> THEN <<>>
    ELSE LET elem == Head(elements)
         IN  (IF elem.category \notin {"Table", "Image"} /\ Strip(elem.text) # <<>>
              THEN <<[type |-> CategoryLower(elem.category), content |-> elem.text,
                      page |-> PageContaining(pages, elem.text)]>>
              ELSE <<>>) \o PartitionElements(Tail(elements), pages)

_parse_markdown_full(md, pages) ==
    [handle |-> "none",
     content |->
        IF ~md.renders THEN FallbackText(<<>>, pages)
        ELSE LET built == HtmlImages(HtmlTableElements(md.tables, pages), md.imgs, 1, pages)
             IN  IF ~md.partitions THEN FallbackText(built, pages)
                 ELSE built \o PartitionElements(md.elements, pages)]

----------------------------------------------------------------------------
(* ParsingService.parse_document and parse_pdf *)

ParseMethods == {"all_text", "by_pages", "by_titles", "text_and_tables", "full_parse"}
SourceMethods == {"text_and_tables", "full_parse"}

\* the else branch of the method dispatch
UnsupportedParsing(parsed_content) == Raise("Unsupported parsing method", parsed_content)

\* the strategy the dispatch selects: [content, handle]
ParseStrategy(src, pages, method, file_type) ==
    CASE method = "all_text" -> [content |-> _parse_all_text(pages), handle |-> "none"]
      [] method = "by_pages" -> [content |-> _parse_by_pages(pages), handle |-> "none"]
      [] method = "by_titles" -> [content |-> _parse_by_titles(pages), handle |-> "none"]
      [] method = "text_and_tables" ->
            IF file_type = "pdf" THEN _parse_pdf_text_and_tables(src, pages)
            ELSE _parse_markdown_text_and_tables(src, pages)
      [] method = "full_parse" ->
            IF file_type = "pdf" THEN _parse_pdf_full(src, pages)
            ELSE _parse_markdown_full(src, pages)

\* document_data
ParsedDocument(pm, method, md, now, parsed_content) ==
    [metadata |-> [filename |-> MetaGet(md, "filename", <<>>),
                   total_pages |-> Len(pm.pages),
                   parsing_method |-> method,
                   file_type |-> FileType(md),
                   timestamp |-> now],
     content |-> parsed_content]

\* src stands for what file_path and text give access to
parse_document(src, pm, method, md, now) ==
    IF NotPageMap(pm) THEN Raise("Page map is required for parsing.", <<>>)
    ELSE IF method \in ParseMethods
    THEN LET got == ParseStrategy(src, pm.pages, method, FileType(md))
         IN  [Return(ParsedDocument(pm, method, md, now, got.content))
                 EXCEPT !.handle = got.handle]
    ELSE UnsupportedParsing(<<>>)

----------------------------------------------------------------------------
(* The inputs of the model. *)

PageTextPool ==
    { <<>>,
      <<" ", "\n">>,
      <<"a", ".", "\n", "\n", "b">>,
      <<"A", "\n", "a", " ", "b">> }

\* strictly increasing page numbers, gaps allowed
Increasing(ns) == \A i \in 1..(Len(ns) - 1) : ns[i] < ns[i + 1]

PageNumberLists ==
    UNION {{ns \in [1..n -> 1..MaxPageNo] : Increasing(ns)} : n \in 1..MaxPages}

PageLists ==
    UNION {{[i \in 1..Len(ns) |-> [page |-> ns[i], text |-> ts[i]]] :
                ts \in [1..Len(ns) -> PageTextPool]} : ns \in PageNumberLists}

PageMaps ==
    {[given |-> FALSE, pages |-> <<>>], [given |-> TRUE, pages |-> <<>>]}
        \cup {[given |-> TRUE, pages |-> ps] : ps \in PageLists}

MetadataPool ==
    { [filename |-> <<"n", ".", "M", "D">>, loading_method |-> "plain"],
      [filename |-> <<"n", ".", "p", "d", "f">>, loading_method |-> "pymupdf"],
      [loading_method |-> "pypdf"] }

DefaultChunkSize == 1000

\* the (method, chunk_size) pairs tried: every size for fixed_size, the default
\* size for the others; "by_words" is a name neither service knows
ChunkCalls ==
    {[method |-> "fixed_size", chunk_size |-> s] : s \in 1..MaxChunkSize}
        \cup {[method |-> m, chunk_size |-> DefaultChunkSize] :
                 m \in (ChunkMethods \ {"fixed_size"}) \cup {"by_words"}}

(* Source documents. *)

TextCell(t) == [kind |-> "text", text |-> t]
NoneCell == [kind |-> "none", text |-> <<>>]
RaisingCell == [kind |-> "raises", text |-> <<>>]

GoodTable == << <<TextCell(<<"A">>), TextCell(<<" ", "B", " ">>)>>,
                <<TextCell(<<"1">>), NoneCell>> >>
BadTable == << <<TextCell(<<"A">>), RaisingCell>> >>

ImgOk == [extracts |-> TRUE, ocr_ok |-> TRUE, text |-> <<"x", "\n">>]
ImgLost == [extracts |-> FALSE, ocr_ok |-> TRUE, text |-> <<"y">>]
ImgBlank == [extracts |-> TRUE, ocr_ok |-> TRUE, text |-> <<" ">>]
ImgUnread == [extracts |-> TRUE, ocr_ok |-> FALSE, text |-> <<>>]

RichPage == [finds |-> TRUE, tables |-> <<GoodTable>>,
             images |-> <<ImgLost, ImgOk, ImgBlank, ImgUnread>>]
BadTablePage == [finds |-> TRUE, tables |-> <<GoodTable, BadTable, GoodTable>>,
                 images |-> <<ImgOk>>]
NoFindPage == [finds |-> FALSE, tables |-> <<>>, images |-> <<>>]

ClosedDoc == [opens |-> FALSE, pages |-> <<>>]
EmptyDoc == [opens |-> TRUE, pages |-> <<>>]

PageNumbers(pages) == {pages[i].page : i \in DOMAIN pages}
LastPage(pages) == IF pages = <<>> THEN 0 ELSE SetMax(PageNumbers(pages))

\* the PDF sources tried for a Page Model: a file that cannot be opened; a
\* document of rich pages; one whose pages hold a table that cannot be read; one
\* a page short of the Page Model; one whose last page fails table detection
PdfSources(pages) ==
    {ClosedDoc,
     [opens |-> TRUE, pages |-> [i \in 1..LastPage(pages) |-> RichPage]],
     [opens |-> TRUE, pages |-> [i \in 1..LastPage(pages) |-> BadTablePage]],
     [opens |-> TRUE, pages |-> [i \in 1..(LastPage(pages) - 1) |-> RichPage]],
     [opens |-> TRUE,
      pages |-> [i \in 1..LastPage(pages) |->
                    IF i = LastPage(pages) THEN NoFindPage ELSE RichPage]]}

Th(t) == [tag |-> "th", text |-> t]
Td(t) == [tag |-> "td", text |-> t]

\* <table><tr><th>a</th> <td>b</td></tr></table>: its text "a b" occurs in a page text
TableInText ==
    [gap |-> <<" ">>, sections |-> <<[kind |-> "bare", rows |-> << <<Th(<<"a">>), Td(<<"b">>)>> >>]>>]
\* a rendered Markdown table: its text "H\n1" occurs in no page text
TableNowhere ==
    [gap |-> <<"\n">>,
     sections |-> <<[kind |-> "thead", rows |-> << <<Th(<<"H">>)>> >>],
                    [kind |-> "tbody", rows |-> << <<Td(<<"1">>)>> >>]>>]

ImgLocal == [src |-> <<"p">>, alt |-> <<"q">>, exists |-> TRUE, ocr_ok |-> TRUE,
             text |-> <<"x">>]
ImgRemote == [src |-> Http \o <<"p">>, alt |-> <<"a">>, exists |-> FALSE, ocr_ok |-> TRUE,
              text |-> <<"x">>]
ImgMissing == [src |-> <<"b">>, alt |-> <<"q">>, exists |-> FALSE, ocr_ok |-> TRUE,
               text |-> <<"x">>]
ImgUnreadable == [src |-> <<"r">>, alt |-> <<"q">>, exists |-> TRUE, ocr_ok |-> FALSE,
                  text |-> <<>>]

ElementLists ==
    {<<>>,
     <<[category |-> "Title", text |-> <<"A", "B">>],
       [category |-> "Table", text |-> <<"H", " ", "1">>],
       [category |-> "NarrativeText", text |-> <<"z">>]>>}

UnrenderedMd == [renders |-> FALSE, tables |-> <<>>, imgs |-> <<>>, partitions |-> FALSE,
                 elements |-> <<>>]

MdSources ==
    {UnrenderedMd}
        \cup {[renders |-> TRUE, tables |-> ts, imgs |-> is, partitions |-> TRUE, elements |-> es] :
                 ts \in {<<>>, <<TableNowhere>>, <<TableInText, TableNowhere>>},
                 is \in {<<>>, <<ImgUnreadable, ImgLocal, ImgRemote, ImgMissing>>},
                 es \in ElementLists}
        \cup {[renders |-> TRUE, tables |-> ts, imgs |-> is, partitions |-> FALSE,
               elements |-> <<>>] :
                 ts \in {<<>>, <<TableNowhere>>, <<TableInText, TableNowhere>>},
                 is \in {<<>>, <<ImgUnreadable, ImgLocal, ImgRemote, ImgMissing>>}}

NoSource == [unused |-> TRUE]

\* what parse_pdf's empty file path gives access to: fitz.open("") raises or
\* yields an empty document; partition_md(filename="") raises
EmptyPathSources(file_type) ==
    IF file_type = "pdf" THEN {ClosedDoc, EmptyDoc}
    ELSE {m \in MdSources : ~m.partitions}

NoCall == [op |-> "none"]
NoResult == [status |-> "none"]

Init ==
    /\ page_map \in PageMaps
    /\ metadata \in MetadataPool
    /\ call = NoCall
    /\ result = NoResult
    /\ first = NoCall
    /\ clock = 0
    /\ LoadingServiceInit

\* mutant: the page loop writes the stripped text back into each record
PagesAfterCallStripped(pages) ==
    [i \in DOMAIN pages |-> [pages[i] EXCEPT !.text = Strip(@)]]

\* the caller's page_map list after a call: both services only read the records
\* (page_data['page'], page_data['text']) and rebind locals; nothing is assigned
\* into the list or its dicts
PagesAfterCall(pages) == pages

\* one call of ChunkingService.chunk_text
ChunkCall(c) ==
    /\ call' = [op |-> "chunk_text", method |-> c.method, chunk_size |-> c.chunk_size]
    /\ result' = chunk_text(page_map, c.method, metadata, c.chunk_size, clock + 1)
    /\ clock' = clock + 1
    /\ page_map' = [page_map EXCEPT !.pages = PagesAfterCall(@)]
    /\ UNCHANGED <<metadata, total_pages, current_page_map>>

\* one call of ParsingService.parse_document
ParseCall(op, src, method) ==
    /\ call' = [op |-> op, method |-> method, src |-> src]
    /\ result' = parse_document(src, page_map, method, metadata, clock + 1)
    /\ clock' = clock + 1
    /\ page_map' = [page_map EXCEPT !.pages = PagesAfterCall(@)]
    /\ UNCHANGED <<metadata, total_pages, current_page_map>>

\* a caller invokes chunk_text
ChunkText ==
    /\ call = NoCall
    /\ \E c \in ChunkCalls : ChunkCall(c)
    /\ UNCHANGED first

\* a caller invokes parse_document with a strategy that reads the Page Model only
ParseDocument ==
    /\ call = NoCall
    /\ \E method \in (ParseMethods \ SourceMethods) \cup {"by_words"} :
           ParseCall("parse_document", NoSource, method)
    /\ UNCHANGED first

\* a caller invokes parse_document with a strategy that re-opens the source
ParseSource ==
    /\ call = NoCall
    /\ \E method \in SourceMethods :
           \E src \in (IF FileType(metadata) = "pdf" THEN PdfSources(page_map.pages)
                       ELSE MdSources) :
               ParseCall("parse_document", src, method)
    /\ UNCHANGED first

\* a caller invokes parse_pdf, which passes the empty file path on
ParsePdf ==
    /\ call = NoCall
    /\ \E method \in ParseMethods \cup {"by_words"} :
           \E src \in EmptyPathSources(FileType(metadata)) :
               ParseCall("parse_pdf", src, method)
    /\ UNCHANGED first

Next == ChunkText \/ ParseDocument \/ ParseSource \/ ParsePdf

Spec == Init /\ [][Next]_vars

----------------------------------------------------------------------------
(* Properties of chunk_text and parse_document, checked under Spec. *)

Pages == page_map.pages
Chunked == call.op = "chunk_text" /\ result.status = "ok"
Parsed == call.op \in {"parse_document", "parse_pdf"} /\ result.status = "ok"
Chunks == result.doc.chunks
Content == result.doc.content

\* C1: under each of the four chunking methods and for every non-empty Page
\* Model, chunk_text returns a document whose total_chunks is the length of
\* chunks and whose chunk ids, in list order, are 1, 2, ..., total_chunks.
C1_ChunkIdsSequential ==
    (call.op = "chunk_text" /\ call.method \in ChunkMethods /\ ~NotPageMap(page_map))
        => /\ result.status = "ok"
           /\ result.doc.total_chunks = Len(Chunks)
           /\ \A i \in DOMAIN Chunks : Chunks[i].metadata.chunk_id = i

\* a two-page model whose first page contributes no chunk and whose second
\* page contributes several
C1_Witness ==
    /\ Chunked
    /\ Len(Pages) = 2
    /\ Len(Chunks) >= 2
    /\ \A i \in DOMAIN Chunks : Chunks[i].metadata.page_number = Pages[2].page

\* C3: a page whose text is empty or whitespace-only contributes no chunk,
\* under every chunking method.
C3_BlankPageContributesNothing ==
    Chunked =>
        \A i \in DOMAIN Chunks : \A j \in DOMAIN Pages :
            Chunks[i].metadata.page_number = Pages[j].page => Strip(Pages[j].text) # <<>>

\* C4: with a non-empty Page Model, a method name that chunk_text (or
\* parse_document, also through parse_pdf) does not know ends the call in the
\* unsupported-method error: no document is returned and nothing was built.
C4_UnknownMethodRaises ==
    /\ (call.op = "chunk_text" /\ call.method \notin ChunkMethods /\ ~NotPageMap(page_map))
          => /\ result.status = "error"
             /\ result.error = "Unsupported chunking method"
             /\ result.doc = NoDoc
             /\ result.partial = <<>>
    /\ (call.op \in {"parse_document", "parse_pdf"} /\ call.method \notin ParseMethods
            /\ ~NotPageMap(page_map))
          => /\ result.status = "error"
             /\ result.error = "Unsupported parsing method"
             /\ result.doc = NoDoc
             /\ result.partial = <<>>

C4_Witness ==
    /\ call.op = "chunk_text"
    /\ call.method = "by_words"
    /\ Len(Pages) = 2
    /\ result.status = "error"

\* C5: with an empty or absent Page Model, chunk_text, parse_document and
\* parse_pdf raise the page-map error whatever the method name, known or not,
\* and return no document.
C5_EmptyPageMapRaises ==
    (call.op # "none" /\ (~page_map.given \/ Len(Pages) = 0))
        => /\ result.status = "error"
           /\ result.error = IF call.op = "chunk_text"
                             THEN "Page map is required for chunking."
                             ELSE "Page map is required for parsing."
           /\ result.doc = NoDoc

\* parse_pdf with an unknown method and the empty list as its Page Model
C5_Witness ==
    /\ call.op = "parse_pdf"
    /\ call.method = "by_words"
    /\ page_map.given /\ Pages = <<>>
    /\ result.error = "Page map is required for parsing."

\* C9: the page of every returned chunk and of every parsed element is a page
\* number of the input Page Model.
C9_PagesComeFromPageModel ==
    /\ Chunked => \A i \in DOMAIN Chunks :
                      Chunks[i].metadata.page_number \in PageNumbers(Pages)
    /\ Parsed => \A i \in DOMAIN Content : Content[i].page \in PageNumbers(Pages)

\* whether the table, image or HTML extraction of the call raised
ExtractionRaised ==
    IF FileType(metadata) = "pdf"
    THEN ~call.src.opens
            \/ PdfPages(<<>>, call.src, Pages, call.method = "full_parse").raised
    ELSE ~call.src.renders \/ (call.method = "full_parse" /\ ~call.src.partitions)

\* C2: when the extraction of text_and_tables or full_parse raises at any
\* point, the content returned is exactly one text element per page record, in
\* page order, with the page's text and number.
C2_FallbackIsPerPageText ==
    (Parsed /\ call.method \in SourceMethods /\ ExtractionRaised)
        => Content = [i \in DOMAIN Pages |->
                         [type |-> "text", content |-> Pages[i].text, page |-> Pages[i].page]]

\* the elements one PDF page gives when every item that fails is left out and
\* nothing else is: its readable tables, its readable non-blank images, its text
ReadableTables(docpage, page_num) ==
    LET all == [i \in DOMAIN docpage.tables |->
                   [type |-> "table",
                    content |-> _convert_to_markdown_table(TableRows(docpage.tables[i])),
                    page |-> page_num, table_index |-> i]]
    IN  SelectSeq(all, LAMBDA e : ~TableRaises(docpage.tables[e.table_index]))

ReadableImages(docpage, page_num) ==
    LET all == [i \in DOMAIN docpage.images |->
                   [type |-> "image",
                    content |-> IF docpage.images[i].ocr_ok THEN docpage.images[i].text
                                ELSE <<>>,
                    page |-> page_num, image_index |-> i]]
    IN  SelectSeq(all, LAMBDA e : /\ docpage.images[e.image_index].extracts
                                  /\ Strip(e.content) # <<>>)

ItemwiseContent(doc, pages, with_images) ==
    Flatten([i \in DOMAIN pages |->
                ReadableTables(doc.pages[pages[i].page], pages[i].page)
                    \o (IF with_images
                        THEN ReadableImages(doc.pages[pages[i].page], pages[i].page)
                        ELSE <<>>)
                    \o <<[type |-> "text", content |-> pages[i].text,
                          page |-> pages[i].page]>>])

\* a PDF source that opens, holds every page of the Page Model and detects
\* tables on each: only single tables or images can fail
OnlyItemsFail ==
    /\ Parsed /\ call.method \in SourceMethods /\ FileType(metadata) = "pdf"
    /\ call.src.opens
    /\ \A i \in DOMAIN Pages :
           Pages[i].page <= Len(call.src.pages) /\ call.src.pages[Pages[i].page].finds

SomeTableFails ==
    \E i \in DOMAIN Pages :
        \E t \in DOMAIN call.src.pages[Pages[i].page].tables :
            TableRaises(call.src.pages[Pages[i].page].tables[t])

\* C8 as stated: one failing image or one failing table only leaves that item
\* out; every other table, image and page text is emitted.
C8_ItemFailureOmitsItem ==
    OnlyItemsFail => Content = ItemwiseContent(call.src, Pages, call.method = "full_parse")

\* the image elements of a Markdown source: one per local, existing image
\* whose OCR text is not blank, under the image's own index
ReadableMdImages(md, pages) ==
    LET all == [i \in DOMAIN md.imgs |->
                   [type |-> "image",
                    content |-> IF md.imgs[i].ocr_ok THEN md.imgs[i].text ELSE <<>>,
                    page |-> ImagePage(pages, md.imgs[i]), image_index |-> i,
                    image_alt |-> md.imgs[i].alt, image_src |-> md.imgs[i].src]]
    IN  SelectSeq(all, LAMBDA e : /\ md.imgs[e.image_index].exists
                                  /\ ~StartsWith(e.image_src, Http)
                                  /\ ~StartsWith(e.image_src, Https)
                                  /\ e.image_src # <<>>
                                  /\ Strip(e.content) # <<>>)

OfType(content, type) == SelectSeq(content, LAMBDA e : e.type = type)

\* C8, amended: in full_parse an image whose byte extraction or OCR fails is
\* left out and nothing else is, and the fallback is not taken; a table whose
\* cells cannot be read is not left out alone: it takes the whole strategy to
\* the fallback, which appends one text element per page.
C8_ImageFailureOmitsImage ==
    /\ (OnlyItemsFail /\ ~SomeTableFails)
          => /\ Content = ItemwiseContent(call.src, Pages, call.method = "full_parse")
             /\ result.handle = "closed"
    /\ (OnlyItemsFail /\ SomeTableFails)
          => /\ result.handle = "open"
             /\ Len(Content) >= Len(Pages)
             /\ SubSeq(Content, Len(Content) - Len(Pages) + 1, Len(Content))
                    = [i \in DOMAIN Pages |->
                          [type |-> "text", content |-> Pages[i].text,
                           page |-> Pages[i].page]]
    /\ (Parsed /\ call.method = "full_parse" /\ FileType(metadata) = "markdown"
            /\ call.src.renders /\ call.src.partitions)
          => /\ OfType(Content, "image") = ReadableMdImages(call.src, Pages)
             /\ Len(OfType(Content, "table")) = Len(call.src.tables)

\* full_parse of a two-page PDF whose images partly fail: the readable image is
\* there, and so is one text element per page and no more
C8_Witness ==
    /\ OnlyItemsFail /\ ~SomeTableFails
    /\ call.method = "full_parse"
    /\ Len(Pages) = 2
    /\ \E i \in DOMAIN call.src.pages[Pages[2].page].images :
           ~call.src.pages[Pages[2].page].images[i].extracts
    /\ \E i \in DOMAIN Content : Content[i].type = "image" /\ Content[i].page = Pages[2].page
    /\ Cardinality({i \in DOMAIN Content : Content[i].type = "text"}) = 2

\* the tables detected on the i-th page record's page
PageTables(i) == call.src.pages[Pages[i].page].tables

\* the number of elements the page records before the i-th account for: one
\* per table and one text element each
RECURSIVE ElementsBefore(_)
ElementsBefore(i) ==
    IF i = 1 THEN 0 ELSE ElementsBefore(i - 1) + Len(PageTables(i - 1)) + 1

\* C17: when nothing raises, text_and_tables on a PDF emits for each page
\* record, in Page Model order, one table element per table detected on that
\* page (the canonical grid, under that page number) and right after them one
\* text element with the page's text unmodified; so there is exactly one text
\* element per page, and the tables of a page lie between the text element
\* of the previous page and that of their own.
C17_TablesThenTextPerPage ==
    (OnlyItemsFail /\ ~SomeTableFails /\ call.method = "text_and_tables")
        => /\ Len(Content) = ElementsBefore(Len(Pages) + 1)
           /\ Len(OfType(Content, "text")) = Len(Pages)
           /\ \A i \in DOMAIN Pages :
                 /\ \A t \in DOMAIN PageTables(i) :
                       LET e == Content[ElementsBefore(i) + t]
                       IN  /\ e.type = "table"
                           /\ e.content = _convert_to_markdown_table(TableRows(PageTables(i)[t]))
                           /\ e.page = Pages[i].page
                 /\ LET e == Content[ElementsBefore(i + 1)]
                    IN  /\ e.type = "text"
                        /\ e.content = Pages[i].text
                        /\ e.page = Pages[i].page

\* two page records with one table each: table, text, table, text
C17_Witness ==
    /\ OnlyItemsFail /\ ~SomeTableFails /\ call.method = "text_and_tables"
    /\ Len(Pages) = 2
    /\ \A i \in DOMAIN Pages : Len(PageTables(i)) = 1
    /\ [i \in DOMAIN Content |-> Content[i].type] = <<"table", "text", "table", "text">>
    /\ Content[3].page = Pages[2].page
    /\ Content[2].content # Strip(Content[2].content)

----------------------------------------------------------------------------
(* by_titles on pages made of whole lines, with lines at the length limit. *)

MaxTitleLines == 3   \* lines in a Page Model of SpecTitles

RECURSIVE Rep(_, _)
Rep(c, n) == IF n = 0 THEN <<>> ELSE <<c>> \o Rep(c, n - 1)

LinePool ==
    { <<" ", "A", " ">>,
      <<"1">>,
      <<"A", "b">>,
      <<>>,
      Rep("A", TitleMaxLen - 1),
      Rep("A", TitleMaxLen),
      <<" ">> \o Rep("A", TitleMaxLen - 1) \o <<" ">> }

LineLists == UNION {[1..n -> LinePool] : n \in 1..MaxTitleLines}

\* the lines as one page (cut = Len) or as two pages, cut after line cut
PagesOfLines(ls, cut) ==
    <<[page |-> 2, text |-> Join(SubSeq(ls, 1, cut), <<"\n">>)]>>
        \o (IF cut < Len(ls)
            THEN <<[page |-> 4, text |-> Join(SubSeq(ls, cut + 1, Len(ls)), <<"\n">>)]>>
            ELSE <<>>)

ExampleLines ==
    << <<"p", "r", "e", "a", "m", "b", "l", "e">>,
       <<"I", "N", "T", "R", "O", "D", "U", "C", "T", "I", "O", "N">>,
       <<"b", "o", "d", "y", " ", "o", "n", "e">>,
       <<"b", "o", "d", "y", " ", "t", "w", "o">>,
       <<"M", "E", "T", "H", "O", "D", "S">>,
       <<"d", "a", "t", "a">> >>

ExamplePages == PagesOfLines(ExampleLines, 3)

TitlePageMaps ==
    {[given |-> TRUE, pages |-> ExamplePages]}
        \cup UNION {{[given |-> TRUE, pages |-> PagesOfLines(ls, cut)] :
                        cut \in 1..Len(ls)} : ls \in LineLists}

InitTitles ==
    /\ page_map \in TitlePageMaps
    /\ metadata = [filename |-> <<"n", ".", "p", "d", "f">>, loading_method |-> "pymupdf"]
    /\ call = NoCall
    /\ result = NoResult
    /\ first = NoCall
    /\ clock = 0
    /\ LoadingServiceInit

\* a caller invokes parse_document with the by_titles strategy
ParseByTitles ==
    /\ call = NoCall
    /\ ParseCall("parse_document", NoSource, "by_titles")
    /\ UNCHANGED first

SpecTitles == InitTitles /\ [][ParseByTitles]_vars

\* every line of every page, in order
AllLines == Flatten([i \in DOMAIN Pages |-> PySplit(Pages[i].text, <<"\n">>)])

\* a heading: fewer than 60 characters once trimmed, a capital letter in it and
\* no small letter
Heading(line) ==
    /\ Len(Strip(line)) <= 59
    /\ {i \in DOMAIN line : line[i] \in LowerChars} = {}
    /\ {i \in DOMAIN line : line[i] \in UpperChars} # {}

HeadingIndexes(lines) == {i \in DOMAIN lines : Heading(lines[i])}

\* the k-th smallest member of H
Nth(H, k) == CHOOSE h \in H : Cardinality({j \in H : j < h}) = k - 1

\* C6: by_titles emits one section per heading line, in order; its title is
\* the trimmed heading and its content the lines up to the next heading (or the
\* end of input) joined by newlines; lines before the first heading are in no
\* section, and input without a heading gives no section.  The example of the
\* specification gives the two sections INTRODUCTION and METHODS.
C6_SectionsFollowHeadings ==
    (call.op = "parse_document" /\ call.method = "by_titles")
        => LET lines == AllLines
               H == HeadingIndexes(lines)
               n == Cardinality(H)
               start == [k \in 1..n |-> Nth(H, k)]
               end == [k \in 1..n |-> IF k = n THEN Len(lines) ELSE start[k + 1] - 1]
           IN  /\ result.status = "ok"
               /\ Len(Content) = n
               /\ \A k \in 1..n :
                     /\ Content[k].type = "section"
                     /\ Content[k].title = Strip(lines[start[k]])
                     /\ Content[k].content
                           = Join(SubSeq(lines, start[k] + 1, end[k]), <<"\n">>)
               /\ Pages = ExamplePages
                     => /\ n = 2
                        /\ Content[1].title = ExampleLines[2]
                        /\ Content[1].content
                              = <<"b", "o", "d", "y", " ", "o", "n", "e", "\n",
                                  "b", "o", "d", "y", " ", "t", "w", "o">>
                        /\ Content[2].title = ExampleLines[5]
                        /\ Content[2].content = <<"d", "a", "t", "a">>

\* three lines on two pages: a body line no section holds, a heading of 59
\* characters, then a line of 60 capitals that is its body
C6_Witness ==
    /\ call.op = "parse_document" /\ call.method = "by_titles" /\ result.status = "ok"
    /\ Len(Pages) = 2
    /\ AllLines = <<<<"A", "b">>, Rep("A", TitleMaxLen - 1), Rep("A", TitleMaxLen)>>
    /\ Len(Content) = 1
    /\ Content[1].content = Rep("A", TitleMaxLen)

\* the number of lines on the page records before the p-th
RECURSIVE LinesBefore(_)
LinesBefore(p) ==
    IF p = 1 THEN 0
    ELSE LinesBefore(p - 1) + Len(PySplit(Pages[p - 1].text, <<"\n">>))

\* the page number of the record that holds the i-th line of the input
PageOfLine(i) ==
    Pages[CHOOSE p \in DOMAIN Pages :
              /\ LinesBefore(p) < i
              /\ i <= LinesBefore(p) + Len(PySplit(Pages[p].text, <<"\n">>))].page

\* C16: in by_titles parsing the page of every emitted section is the page
\* number of the record on which the section's own title line occurred, not
\* the page of the next heading nor the page where the section ends, also
\* when its body continues on following pages and when it is the last
\* section, closed at the end of input.
C16_SectionPageIsTitlePage ==
    (call.op = "parse_document" /\ call.method = "by_titles" /\ result.status = "ok")
        => LET H == HeadingIndexes(AllLines)
           IN  /\ Len(Content) = Cardinality(H)
               /\ \A k \in 1..Cardinality(H) : Content[k].page = PageOfLine(Nth(H, k))

\* a heading alone on the first page, its body and the next heading on the
\* second: the first section keeps the first page, the last one the second
C16_Witness ==
    /\ call.op = "parse_document" /\ call.method = "by_titles" /\ result.status = "ok"
    /\ Len(Pages) = 2
    /\ Len(PySplit(Pages[1].text, <<"\n">>)) = 1
    /\ Len(Content) = 2
    /\ Content[1].content # <<>>
    /\ Content[1].page = Pages[1].page
    /\ Content[2].page = Pages[2].page
    /\ Pages[1].page # Pages[2].page

\* C25: the document handle opened by the PDF branches of text_and_tables
\* and full_parse is closed before the strategy returns on every path, the
\* normal one and the fallback taken when an extraction step raises after
\* the document was opened.
C25_HandleClosedOnReturn ==
    (Parsed /\ call.method \in SourceMethods /\ FileType(metadata) = "pdf"
        /\ call.src.opens)
        => result.handle = "closed"

----------------------------------------------------------------------------
(* The page loop of chunk_text, checked under Spec. *)

\* the chunk texts the i-th page record gives when split on its own
SplitOfPage(i) ==
    PageTexts(call.method, FileType(metadata), Pages[i].text, call.chunk_size)

\* the number of chunks the page records before the i-th give
RECURSIVE ChunksBefore(_)
ChunksBefore(i) == IF i = 1 THEN 0 ELSE ChunksBefore(i - 1) + Len(SplitOfPage(i - 1))

\* C22: under fixed_size, by_paragraphs and by_sentences every chunk comes
\* from the text of one page record and carries that record's page number;
\* the chunks are grouped by page in Page Model order and lie in split order
\* within a page, so the page numbers of the chunks never decrease.
C22_ChunksGroupedByPage ==
    (Chunked /\ call.method \in {"fixed_size", "by_paragraphs", "by_sentences"})
        => /\ Len(Chunks) = ChunksBefore(Len(Pages) + 1)
           /\ \A i \in DOMAIN Pages : \A k \in DOMAIN SplitOfPage(i) :
                 LET chunk == Chunks[ChunksBefore(i) + k]
                 IN  /\ chunk.content = SplitOfPage(i)[k]
                     /\ chunk.metadata.page_number = Pages[i].page
                     /\ Contains(Pages[i].text, chunk.content)
           /\ \A x, y \in DOMAIN Chunks :
                 x < y => Chunks[x].metadata.page_number <= Chunks[y].metadata.page_number

\* two page records that give two chunks each
C22_Witness ==
    /\ Chunked /\ call.method \in {"fixed_size", "by_paragraphs", "by_sentences"}
    /\ Len(Pages) = 2
    /\ [i \in DOMAIN Chunks |-> Chunks[i].metadata.page_number]
           = <<Pages[1].page, Pages[1].page, Pages[2].page, Pages[2].page>>
    /\ Chunks[2].content # Chunks[3].content

----------------------------------------------------------------------------
(* full_parse on PDF sources, checked under Spec. *)

\* the elements emitted under the page number of the i-th page record
ElementsOfPage(i) == SelectSeq(Content, LAMBDA e : e.page = Pages[i].page)

\* the index of the page record an element belongs to
RecordOf(e) == CHOOSE i \in DOMAIN Pages : Pages[i].page = e.page

\* C20: in full_parse on a PDF without a top-level error the elements come
\* page by page, and within a page in the order tables, images, one text
\* element with the untouched page text; an image element is emitted if and
\* only if its bytes were extracted and its OCR text is not blank once
\* trimmed, and an image that fails or is blank leaves every other image,
\* table and page as they are.
C20_TablesImagesTextPerPage ==
    (OnlyItemsFail /\ ~SomeTableFails /\ call.method = "full_parse")
        => /\ \A x, y \in DOMAIN Content :
                 x < y => RecordOf(Content[x]) <= RecordOf(Content[y])
           /\ \A i \in DOMAIN Pages :
                 LET seg == ElementsOfPage(i)
                     docpage == call.src.pages[Pages[i].page]
                     nt == Len(docpage.tables)
                     shown == {j \in DOMAIN docpage.images :
                                  /\ docpage.images[j].extracts
                                  /\ docpage.images[j].ocr_ok
                                  /\ Strip(docpage.images[j].text) # <<>>}
                     ni == Cardinality(shown)
                 IN  /\ Len(seg) = nt + ni + 1
                     /\ \A t \in 1..nt :
                           /\ seg[t].type = "table"
                           /\ seg[t].table_index = t
                           /\ seg[t].content
                                 = _convert_to_markdown_table(TableRows(docpage.tables[t]))
                     /\ \A k \in 1..ni :
                           /\ seg[nt + k].type = "image"
                           /\ seg[nt + k].image_index = Nth(shown, k)
                           /\ seg[nt + k].content = docpage.images[Nth(shown, k)].text
                     /\ seg[Len(seg)] = [type |-> "text", content |-> Pages[i].text,
                                         page |-> Pages[i].page]

\* two pages that each hold a table and four images, of which one is lost at
\* extraction, one reads blank and one makes the OCR raise: table, the one
\* readable image under its own index 2, text, twice
C20_Witness ==
    /\ OnlyItemsFail /\ ~SomeTableFails /\ call.method = "full_parse"
    /\ Len(Pages) = 2
    /\ \A i \in DOMAIN Pages :
           LET images == call.src.pages[Pages[i].page].images
           IN  /\ \E j \in DOMAIN images : ~images[j].extracts
               /\ \E j \in DOMAIN images : images[j].extracts /\ ~images[j].ocr_ok
               /\ \E j \in DOMAIN images :
                      images[j].extracts /\ images[j].ocr_ok /\ Strip(images[j].text) = <<>>
    /\ [i \in DOMAIN Content |-> Content[i].type]
           = <<"table", "image", "text", "table", "image", "text">>
    /\ Content[2].image_index = 2 /\ Content[5].image_index = 2

----------------------------------------------------------------------------
(* _convert_to_markdown_table on small grids. *)

MaxRows == 3   \* rows of a grid

RowPool ==
    { <<>>,
      <<<<"A">>>>,
      <<<<"A">>, <<"B">>>>,
      <<<<"1">>, <<"2">>>>,
      <<<<>>, <<"1">>, <<"A">>>> }

ExampleGrid == << <<<<"A">>, <<"B">>>>, <<<<"1">>, <<"2">>>> >>

Grids == UNION {[1..n -> RowPool] : n \in 0..MaxRows}

\* a caller hands a grid to _convert_to_markdown_table
ConvertTable ==
    /\ call = NoCall
    /\ \E rows \in Grids :
          /\ call' = [op |-> "_convert_to_markdown_table", rows |-> rows]
          /\ result' = [status |-> "ok", value |-> _convert_to_markdown_table(rows)]
    /\ clock' = clock + 1
    /\ UNCHANGED <<page_map, metadata, first, total_pages, current_page_map>>

InitTable ==
    /\ page_map = [given |-> FALSE, pages |-> <<>>]
    /\ metadata = [loading_method |-> ""]
    /\ call = NoCall
    /\ result = NoResult
    /\ first = NoCall
    /\ clock = 0
    /\ LoadingServiceInit

SpecTable == InitTable /\ [][ConvertTable]_vars

\* a row in pipe format: "| c1 | c2 | ... |"
Piped(cells) ==
    IF cells = <<>> THEN <<"|", " ", " ", "|">>
    ELSE Flatten([i \in DOMAIN cells |-> <<"|", " ">> \o cells[i] \o <<" ">>]) \o <<"|">>

\* C7: the empty string for no rows; otherwise len(rows) + 1 lines joined by
\* newlines with no newline at the end: the header built from rows[0], the
\* separator with --- once per header cell, then the other rows in order.
\* [[A, B], [1, 2]] gives "| A | B |", "| --- | --- |", "| 1 | 2 |".
C7_TableFormat ==
    call.op = "_convert_to_markdown_table"
        => LET rows == call.rows
               lines == PySplit(result.value, <<"\n">>)
           IN  /\ rows = <<>> => result.value = <<>>
               /\ rows # <<>>
                     => /\ Len(lines) = Len(rows) + 1
                        /\ lines[1] = Piped(rows[1])
                        /\ lines[2] = Piped([i \in DOMAIN rows[1] |-> <<"-", "-", "-">>])
                        /\ \A i \in 2..Len(rows) : lines[i + 1] = Piped(rows[i])
                        /\ result.value[Len(result.value)] # "\n"
               /\ rows = ExampleGrid
                     => result.value
                            = <<"|", " ", "A", " ", "|", " ", "B", " ", "|", "\n",
                                "|", " ", "-", "-", "-", " ", "|", " ", "-", "-", "-", " ",
                                "|", "\n",
                                "|", " ", "1", " ", "|", " ", "2", " ", "|">>

\* a header of one cell over a body row of two
C7_Witness ==
    /\ call.op = "_convert_to_markdown_table"
    /\ Len(call.rows) = 2
    /\ Len(call.rows[1]) = 1 /\ Len(call.rows[2]) = 2
    /\ Len(PySplit(result.value, <<"\n">>)) = 3

----------------------------------------------------------------------------
(* Repeated calls of chunk_text on one ChunkingService. *)

RepeatTextPool == PageTextPool \ {<<" ", "\n">>}

\* Page Models with the pages numbered 1, 2, ...
NumberedPageMaps ==
    {[given |-> TRUE, pages |-> [i \in 1..Len(ts) |-> [page |-> i, text |-> ts[i]]]] :
        ts \in UNION {[1..n -> RepeatTextPool] : n \in 0..MaxPages}}

InitRepeat ==
    /\ page_map \in NumberedPageMaps
    /\ metadata \in {md \in MetadataPool : "filename" \in DOMAIN md}
    /\ call = NoCall
    /\ result = NoResult
    /\ first = NoCall
    /\ clock = 0
    /\ LoadingServiceInit

\* a caller invokes chunk_text again on the same instance; the first call of
\* the run is remembered
ChunkTextAgain ==
    /\ clock < MaxTime
    /\ \E c \in ChunkCalls : ChunkCall(c)
    /\ first' = IF first = NoCall THEN [op |-> "chunk_text", call |-> call', result |-> result']
                ELSE first

SpecRepeat == InitRepeat /\ [][ChunkTextAgain]_vars

\* a document with its timestamp blanked
Untimed(r) == IF r.status = "ok" THEN [r EXCEPT !.doc.timestamp = 0] ELSE r

----------------------------------------------------------------------------
(* Calls of both services, one after another, on the same Page Model. *)

FramePageMaps ==
    {[given |-> FALSE, pages |-> <<>>]}
        \cup {[given |-> TRUE,
               pages |-> [i \in 1..Len(ts) |-> [page |-> i, text |-> ts[i]]]] :
                 ts \in UNION {[1..n -> {<<" ", "\n">>, <<"a", ".", "\n", "\n", "b">>}] :
                                   n \in 0..MaxPages}}

\* the source handed to a strategy that re-opens the file: a PDF that cannot
\* be opened, a Markdown file with two tables
FrameSource(file_type) ==
    IF file_type = "pdf" THEN ClosedDoc
    ELSE [renders |-> TRUE, tables |-> <<TableInText, TableNowhere>>, imgs |-> <<>>,
          partitions |-> FALSE, elements |-> <<>>]

FrameParseCalls ==
    {[method |-> m, sourced |-> FALSE] : m \in {"all_text", "by_titles", "by_words"}}
        \cup {[method |-> "text_and_tables", sourced |-> TRUE]}

InitFrame ==
    /\ page_map \in FramePageMaps
    /\ metadata \in {md \in MetadataPool : "filename" \in DOMAIN md}
    /\ call = NoCall
    /\ result = NoResult
    /\ first = NoCall
    /\ clock = 0
    /\ LoadingServiceInit

\* the first call of a run is remembered
Remember ==
    first' = IF first = NoCall THEN [op |-> call'.op, call |-> call', result |-> result']
             ELSE first

\* a caller invokes chunk_text on an instance that has served calls before
FrameChunk ==
    /\ clock < MaxTime
    /\ \E c \in ChunkCalls : ChunkCall(c)
    /\ Remember

\* a caller invokes parse_document on an instance that has served calls before
FrameParse ==
    /\ clock < MaxTime
    /\ \E p \in FrameParseCalls :
          ParseCall("parse_document",
                    IF p.sourced THEN FrameSource(FileType(metadata)) ELSE NoSource,
                    p.method)
    /\ Remember

NextFrame == FrameChunk \/ FrameParse

SpecFrame == InitFrame /\ [][NextFrame]_vars

\* a returned document with its timestamp blanked (chunk_text keeps it at the
\* top, parse_document under metadata)
Timeless(r) ==
    IF r.status # "ok" THEN r
    ELSE IF "timestamp" \in DOMAIN r.doc THEN [r EXCEPT !.doc.timestamp = 0]
    ELSE [r EXCEPT !.doc.metadata.timestamp = 0]

----------------------------------------------------------------------------
(* _fixed_size_chunks on one page, with chunk sizes that give an overlap. *)

MaxWindowLen == 30   \* characters of a page text of SpecWindows

WindowAlphabet ==
    <<"a", "b", "c", "d", "e", "f", "g", "h", "i", "j", "k", "l", "m",
      "n", "o", "p", "q", "r", "s", "t", "u", "v", "w", "x", "y", "z">>

\* n characters without any separator
PlainText(n) == [i \in 1..n |-> WindowAlphabet[((i - 1) % 26) + 1]]

\* the same with a space in every fourth place, the first included
SpacedText(n) == [i \in 1..n |-> IF i % 4 = 1 THEN " " ELSE PlainText(n)[i]]

\* the same with ". " in places 6-7, a blank line in 13-14, a line break in 20
BrokenText(n) ==
    [i \in 1..n |->
        CASE i = 6 -> "."
          [] i = 7 -> " "
          [] i \in {13, 14, 20} -> "\n"
          [] OTHER -> PlainText(n)[i]]

WindowTexts ==
    UNION {{PlainText(n), SpacedText(n), BrokenText(n)} : n \in 0..MaxWindowLen}

WindowSizes == {1, 3, 10, 20, 2000, 2500}

InitWindows ==
    /\ page_map \in {[given |-> TRUE, pages |-> <<[page |-> 1, text |-> t]>>] :
                        t \in WindowTexts}
    /\ metadata = [filename |-> <<"n", ".", "p", "d", "f">>, loading_method |-> "pymupdf"]
    /\ call = NoCall
    /\ result = NoResult
    /\ first = NoCall
    /\ clock = 0
    /\ LoadingServiceInit

\* the fixed_size branch hands the text of the page to _fixed_size_chunks; the
\* overlap the splitter was built with is kept beside the chunks
FixedSizeChunks ==
    /\ call = NoCall
    /\ \E size \in WindowSizes :
          /\ call' = [op |-> "_fixed_size_chunks", chunk_size |-> size]
          /\ result' = [status |-> "ok",
                        value |-> _fixed_size_chunks(page_map.pages[1].text, size),
                        chunk_overlap |-> ChunkOverlap(size)]
    /\ clock' = clock + 1
    /\ UNCHANGED <<page_map, metadata, first, total_pages, current_page_map>>

SpecWindows == InitWindows /\ [][FixedSizeChunks]_vars

\* min(200, floor(S / 10))
OverlapLimit(size) == IF size \div 10 < 200 THEN size \div 10 ELSE 200

\* whether text[a..b] may lie outside every chunk: only when it is empty or,
\* with blank_ok, all white space
Skip(text, a, b, blank_ok) ==
    a > b \/ (blank_ok /\ \A i \in a..b : text[i] \in Whitespace)

\* where chunk c occurs in the text
Starts(text, c) ==
    {p \in 1..(Len(text) - Len(c) + 1) : SubSeq(text, p, p + Len(c) - 1) = c}

\* the places chunk i can take when chunk i - 1 may be at one of prev: it begins
\* after its predecessor began, shares at most limit characters with it and
\* leaves between them only what Skip allows; then on to the last chunk, which
\* must reach the end of the text
RECURSIVE Placed(_, _, _, _, _, _)
Placed(text, chunks, limit, blank_ok, i, prev) ==
    IF i > Len(chunks)
    THEN \E p \in prev : Skip(text, p + Len(chunks[i - 1]), Len(text), blank_ok)
    ELSE Placed(text, chunks, limit, blank_ok, i + 1,
                {q \in Starts(text, chunks[i]) :
                    \E p \in prev :
                       /\ p < q
                       /\ p + Len(chunks[i - 1]) - q <= limit
                       /\ Skip(text, p + Len(chunks[i - 1]), q - 1, blank_ok)})

\* the chunks can be laid over the text in order, the first from the start
Windowed(text, chunks, limit, blank_ok) ==
    IF chunks = <<>> THEN Skip(text, 1, Len(text), blank_ok)
    ELSE Placed(text, chunks, limit, blank_ok, 2,
                {p \in Starts(text, chunks[1]) : Skip(text, 1, p - 1, blank_ok)})

\* C12 as stated: the overlap is min(200, floor(S/10)), no chunk is longer
\* than S, consecutive chunks share at most the overlap, and the chunks
\* together cover the whole text of a page that is not blank.
C12_WindowsCoverText ==
    (call.op = "_fixed_size_chunks" /\ Strip(Pages[1].text) # <<>>)
        => /\ result.chunk_overlap = OverlapLimit(call.chunk_size)
           /\ \A i \in DOMAIN result.value : Len(result.value[i]) <= call.chunk_size
           /\ Windowed(Pages[1].text, result.value, OverlapLimit(call.chunk_size), FALSE)

\* C12, amended: the overlap is min(200, floor(S/10)), no chunk is longer than
\* S, consecutive chunks share at most the overlap, and the chunks together
\* cover every character of the page text except white space lying before the
\* first chunk, between two chunks or after the last.
C12_WindowsCoverNonBlankText ==
    call.op = "_fixed_size_chunks"
        => /\ result.chunk_overlap = OverlapLimit(call.chunk_size)
           /\ \A i \in DOMAIN result.value : Len(result.value[i]) <= call.chunk_size
           /\ Windowed(Pages[1].text, result.value, OverlapLimit(call.chunk_size), TRUE)

\* 25 characters without a separator cut with chunk size 10: three windows,
\* each sharing one character with the one before
C12_Witness ==
    /\ call.op = "_fixed_size_chunks" /\ call.chunk_size = 10
    /\ Pages[1].text = PlainText(25)
    /\ Len(result.value) = 3
    /\ result.value[1][10] = result.value[2][1]
    /\ result.value[2][10] = result.value[3][1]

----------------------------------------------------------------------------
(* The page-by-page strategies on Page Models of up to three records. *)

MaxRecords == 3   \* page records in a Page Model of SpecPages

\* page numbers 1, 2, 3, ... and page numbers with gaps and several digits
DensePage(i) == i
SparsePage(i) == 60 * i - 58

RecordLists ==
    UNION {{[i \in DOMAIN ts |-> [page |-> DensePage(i), text |-> ts[i]]],
            [i \in DOMAIN ts |-> [page |-> SparsePage(i), text |-> ts[i]]]} :
              ts \in UNION {[1..n -> PageTextPool] : n \in 0..MaxRecords}}

\* metadata as a loader hands it on, and metadata that carries a word count
CountedMetadata ==
    [filename |-> <<"n", ".", "p", "d", "f">>, loading_method |-> "pymupdf", word_count |-> 99]

InitPages ==
    /\ page_map \in {[given |-> TRUE, pages |-> ps] : ps \in RecordLists}
    /\ metadata \in {[filename |-> <<"n", ".", "M", "D">>, loading_method |-> "plain"],
                     CountedMetadata}
    /\ call = NoCall
    /\ result = NoResult
    /\ first = NoCall
    /\ clock = 0
    /\ LoadingServiceInit

\* a caller invokes chunk_text with the by_pages method
ChunkByPages ==
    /\ call = NoCall
    /\ ChunkCall([method |-> "by_pages", chunk_size |-> DefaultChunkSize])
    /\ UNCHANGED first

\* a caller invokes parse_document with all_text or by_pages
ParsePages ==
    /\ call = NoCall
    /\ \E method \in {"all_text", "by_pages"} : ParseCall("parse_document", NoSource, method)
    /\ UNCHANGED first

NextPages == ChunkByPages \/ ParsePages

SpecPages == InitPages /\ [][NextPages]_vars

\* the decimal numeral of n > 0, digit by digit
Digits(n) == CHOOSE d \in 1..4 : 10 ^ (d - 1) <= n /\ n < 10 ^ d
Decimal(n) ==
    [k \in 1..Digits(n) |-> DigitChars[((n \div (10 ^ (Digits(n) - k))) % 10) + 1]]

\* the number of places where a whitespace-separated token ends
Tokens(t) ==
    Cardinality({i \in DOMAIN t : /\ t[i] \notin Whitespace
                                   /\ (i = Len(t) \/ t[i + 1] \in Whitespace)})

\* C13: by_pages chunking of a Page Model whose pages all have non-empty text
\* returns one chunk per page record, in order: the page text verbatim, the
\* record's page number, that number as a string, and the number of
\* whitespace-separated tokens of the content, whatever the metadata says.
C13_OneChunkPerPage ==
    (call.op = "chunk_text" /\ call.method = "by_pages" /\ Pages # <<>>
        /\ \A i \in DOMAIN Pages : Pages[i].text # <<>>)
        => /\ result.status = "ok"
           /\ Len(Chunks) = Len(Pages)
           /\ \A i \in DOMAIN Pages :
                 /\ Chunks[i].content = Pages[i].text
                 /\ Chunks[i].metadata.page_number = Pages[i].page
                 /\ Chunks[i].metadata.page_range = Decimal(Pages[i].page)
                 /\ Chunks[i].metadata.word_count = Tokens(Pages[i].text)

\* three pages numbered 2, 62 and 122, the last of three words, chunked with
\* metadata that carries a word count of its own
C13_Witness ==
    /\ call.op = "chunk_text" /\ call.method = "by_pages"
    /\ metadata = CountedMetadata
    /\ Len(Pages) = 3 /\ Len(Chunks) = 3
    /\ \A i \in DOMAIN Pages : Pages[i].text # <<>>
    /\ Chunks[3].metadata.page_range = <<"1", "2", "2">>
    /\ Chunks[3].metadata.word_count = 3

\* C14: all_text returns one element per page record, in order, of type text
\* with the page text verbatim and the record's page number; by_pages returns
\* the same list with type page.
C14_OneElementPerPage ==
    (call.op = "parse_document" /\ call.method \in {"all_text", "by_pages"} /\ Pages # <<>>)
        => /\ result.status = "ok"
           /\ Content = [i \in DOMAIN Pages |->
                            [type |-> IF call.method = "all_text" THEN "text" ELSE "page",
                             content |-> Pages[i].text, page |-> Pages[i].page]]

----------------------------------------------------------------------------
(* LoadingService: load_document and the six loaders.  A file is what the  *)
(* libraries make of it: whether it opens, the text each page yields, the  *)
(* page at which text extraction raises (0: none), whether the             *)
(* unstructured partitioner accepts it and the elements it returns, and    *)
(* for Markdown the file content and the documents langchain loads.        *)

MaxLoads == 2   \* load_document calls on one LoadingService

\* how a loader ends: the value returned or the exception raised, and the two
\* instance fields as the loader leaves them
Loaded(value, pages, blocks) ==
    [status |-> "ok", value |-> value, error |-> "",
     total_pages |-> pages, current_page_map |-> blocks]
LoadRaised(msg, pages, blocks) ==
    [status |-> "error", value |-> <<>>, error |-> msg,
     total_pages |-> pages, current_page_map |-> blocks]

\* the pages whose stripped text is not empty, numbered by enumerate(..., 1)
TextBlocks(texts) ==
    SelectSeq([i \in DOMAIN texts |-> [text |-> Strip(texts[i]), page |-> i]],
              LAMBDA b : b.text # <<>>)

BlockTexts(blocks) == [i \in DOMAIN blocks |-> blocks[i].text]

\* the loop shared by the three page-by-page PDF loaders: total_pages is
\* assigned before the pages are read, current_page_map after
PdfPageLoader(file, tp, cpm) ==
    IF ~file.opens THEN LoadRaised("open", tp, cpm)
    ELSE IF file.raises_at \in DOMAIN file.pages
    THEN LoadRaised("extract", Len(file.pages), cpm)
    ELSE LET blocks == TextBlocks([i \in DOMAIN file.pages |->
                                      IF file.pages[i].has_text THEN file.pages[i].text
                                      ELSE <<>>])
         IN  Loaded(Join(BlockTexts(blocks), <<"\n">>), Len(file.pages), blocks)

_load_with_pymupdf(file, tp, cpm) == PdfPageLoader(file, tp, cpm)
_load_with_pypdf(file, tp, cpm) == PdfPageLoader(file, tp, cpm)
_load_with_pdfplumber(file, tp, cpm) == PdfPageLoader(file, tp, cpm)

\* one block per element that has a page number, under that page number
_load_with_unstructured(file, tp, cpm) ==
    IF ~file.partitions THEN LoadRaised("partition", tp, cpm)
    ELSE LET paged == SelectSeq(file.elements, LAMBDA e : e.has_page)
             blocks == [i \in DOMAIN paged |->
                           [text |-> paged[i].text, page |-> paged[i].page_number,
                            metadata |-> [page_number |-> paged[i].page_number]]]
             pages == {blocks[i].page : i \in DOMAIN blocks}
         IN  Loaded(Join(BlockTexts(blocks), <<"\n">>),
                    IF pages = {} THEN 0 ELSE SetMax(pages), blocks)

\* one block per paragraph that is not blank, under the paragraph's number
_load_markdown(file, tp, cpm) ==
    IF ~file.opens THEN LoadRaised("open", tp, cpm)
    ELSE LET blocks == TextBlocks(PySplit(file.content, <<"\n", "\n">>))
         IN  Loaded(file.content, Len(blocks), blocks)

\* one block per langchain document, or per element when there is none
_load_markdown_with_unstructured(file, tp, cpm) ==
    IF ~file.partitions THEN LoadRaised("partition", tp, cpm)
    ELSE LET docs == [i \in DOMAIN file.documents |->
                         [text |-> file.documents[i], page |-> i,
                          metadata |-> [source |-> "file"]]]
             elems == [i \in DOMAIN file.elements |->
                          [text |-> file.elements[i].text, page |-> i,
                           metadata |-> [source |-> "element"]]]
             blocks == IF docs # <<>> THEN docs ELSE elems
         IN  Loaded(Join(BlockTexts(blocks), <<"\n", "\n">>), Len(blocks), blocks)

PdfLoadMethods == {"pymupdf", "pypdf", "pdfplumber", "unstructured"}
MarkdownLoadMethods == {"plain", "unstructured"}

load_document(file, method, file_type, tp, cpm) ==
    IF file_type = "pdf"
    THEN CASE method = "pymupdf" -> _load_with_pymupdf(file, tp, cpm)
           [] method = "pypdf" -> _load_with_pypdf(file, tp, cpm)
           [] method = "pdfplumber" -> _load_with_pdfplumber(file, tp, cpm)
           [] method = "unstructured" -> _load_with_unstructured(file, tp, cpm)
           [] OTHER -> LoadRaised("Unsupported PDF loading method", tp, cpm)
    ELSE IF file_type = "markdown"
    THEN CASE method = "plain" -> _load_markdown(file, tp, cpm)
           [] method = "unstructured" -> _load_markdown_with_unstructured(file, tp, cpm)
           [] OTHER -> LoadRaised("Unsupported Markdown loading method", tp, cpm)
    ELSE LoadRaised("Unsupported file type", tp, cpm)

get_page_map == current_page_map
get_total_pages ==
    IF current_page_map = <<>> THEN 0
    ELSE SetMax({current_page_map[i].page : i \in DOMAIN current_page_map})

\* the files a caller loads
LoadFile(kind, opens, pages, raises_at, partitions, elements, content, documents) ==
    [kind |-> kind, opens |-> opens, pages |-> pages, raises_at |-> raises_at,
     partitions |-> partitions, elements |-> elements, content |-> content,
     documents |-> documents]

PageWith(text) == [has_text |-> TRUE, text |-> text]
PageWithout == [has_text |-> FALSE, text |-> <<>>]
Element(page_number, text) == [has_page |-> TRUE, page_number |-> page_number, text |-> text]
Unpaged(text) == [has_page |-> FALSE, page_number |-> 0, text |-> text]

\* a PDF of three pages, the second blank; its partition has a title and a
\* paragraph on page 1, an element without a page number and one on page 3
PdfThreePages ==
    LoadFile("pdf", TRUE, <<PageWith(<<"T", "\n", "a">>), PageWith(<<" ">>), PageWith(<<"b">>)>>, 0,
             TRUE, <<Element(1, <<"T">>), Element(1, <<"a">>), Unpaged(<<"x">>), Element(3, <<"b">>)>>,
             <<>>, <<>>)
\* a PDF of two pages with one element each; the second page has no text layer
PdfTwoPages ==
    LoadFile("pdf", TRUE, <<PageWith(<<"a">>), PageWithout>>, 0,
             TRUE, <<Element(1, <<"a">>), Element(2, <<"b">>)>>, <<>>, <<>>)
\* a PDF whose second page raises on text extraction and that cannot be
\* partitioned
PdfBrokenPage ==
    LoadFile("pdf", TRUE, <<PageWith(<<"a">>), PageWith(<<"b">>), PageWith(<<"c">>)>>, 2,
             FALSE, <<>>, <<>>, <<>>)
\* a PDF that cannot be opened
PdfUnreadable == LoadFile("pdf", FALSE, <<>>, 0, FALSE, <<>>, <<>>, <<>>)
\* a PDF without pages
PdfNoPages == LoadFile("pdf", TRUE, <<>>, 0, TRUE, <<>>, <<>>, <<>>)
\* a Markdown file of two paragraphs four line breaks apart
MdTwoParagraphs ==
    LoadFile("markdown", TRUE, <<>>, 0, TRUE, <<Element(1, <<"a">>), Element(1, <<"b">>)>>,
             <<"a", "\n", "\n", "\n", "\n", "b">>, <<<<"a", "\n", "\n", "b">>>>)
\* a Markdown file that starts with a blank paragraph; langchain loads no
\* document from it
MdLeadingBlank ==
    LoadFile("markdown", TRUE, <<>>, 0, TRUE, <<Unpaged(<<"b">>)>>,
             <<"\n", "\n", "b">>, <<>>)
\* a Markdown file that cannot be read
MdUnreadable == LoadFile("markdown", FALSE, <<>>, 0, FALSE, <<>>, <<>>, <<>>)

LoadFiles ==
    {PdfThreePages, PdfTwoPages, PdfBrokenPage, PdfUnreadable, PdfNoPages,
     MdTwoParagraphs, MdLeadingBlank, MdUnreadable}

LoadMethods == PdfLoadMethods \cup MarkdownLoadMethods \cup {"ocr"}
LoadFileTypes == {"pdf", "markdown", "docx"}

InitLoad ==
    /\ page_map = [given |-> FALSE, pages |-> <<>>]
    /\ metadata = CountedMetadata
    /\ call = NoCall
    /\ result = NoResult
    /\ first = NoCall
    /\ clock = 0
    /\ LoadingServiceInit

\* a caller invokes load_document on a LoadingService that may have loaded
\* before; the file type is the file's own or one the loader does not know
LoadDocument ==
    /\ clock < MaxLoads
    /\ \E file \in LoadFiles, method \in LoadMethods, file_type \in LoadFileTypes :
          /\ file_type \in {file.kind, "docx"}
          /\ LET out == load_document(file, method, file_type, total_pages, current_page_map)
             IN  /\ call' = [op |-> "load_document", file |-> file, method |-> method,
                             file_type |-> file_type]
                 /\ result' = [status |-> out.status, value |-> out.value, error |-> out.error]
                 /\ total_pages' = out.total_pages
                 /\ current_page_map' = out.current_page_map
    /\ clock' = clock + 1
    /\ UNCHANGED <<page_map, metadata, first>>

SpecLoad == InitLoad /\ [][LoadDocument]_vars

\* C15: after every successful load_document call, with any backend, the
\* Page Model returned by get_page_map has page numbers that are 1-based and
\* strictly increasing in list order (hence pairwise distinct), and every
\* record has a text.
C15_PageNumbersIncrease ==
    (call.op = "load_document" /\ result.status = "ok")
        => /\ \A i \in DOMAIN get_page_map :
                 /\ get_page_map[i].page >= 1
                 /\ "text" \in DOMAIN get_page_map[i]
           /\ \A i, j \in DOMAIN get_page_map :
                 i < j => get_page_map[i].page < get_page_map[j].page

\* C24: whatever load_document calls were made on one LoadingService, the
\* fields total_pages and current_page_map describe the same document: a
\* load that raises, at open or part-way through the pages, leaves both
\* fields as they were after the most recent successful load.
C24_FailedLoadKeepsFields ==
    [][(call'.op = "load_document" /\ result'.status = "error")
          => /\ total_pages' = total_pages
             /\ current_page_map' = current_page_map]_vars

----------------------------------------------------------------------------
(* The Markdown branches of text_and_tables and full_parse on tables whose *)
(* flattened texts overlap, nest or occur on several pages.                *)

MaxTables == 2   \* <table> elements of a Markdown source

\* a table of one cell
OneCell(t) ==
    [gap |-> <<>>, sections |-> <<[kind |-> "bare", rows |-> << <<Td(t)>> >>]>>]

TableTexts == { <<"a", "b">>, <<"x", "y">>, <<"b">> }

TableLists == UNION {[1..n -> {OneCell(t) : t \in TableTexts}] : n \in 1..MaxTables}

TablePageTexts ==
    { <<"a", "a", "b", "b">>,
      <<"a", "x", "y", "b">>,
      <<" ", "a", "b", " ">>,
      <<"x", "y">>,
      <<"c">> }

\* page records numbered from 2, as a loader numbers them that skipped a
\* blank first paragraph
TablePageMaps ==
    {[given |-> TRUE, pages |-> [i \in DOMAIN ts |-> [page |-> i + 1, text |-> ts[i]]]] :
        ts \in UNION {[1..n -> TablePageTexts] : n \in 1..MaxPages}}

TableSource(tables, partitions) ==
    [renders |-> TRUE, tables |-> tables, imgs |-> <<ImgLocal>>, partitions |-> partitions,
     elements |-> IF partitions THEN <<[category |-> "NarrativeText", text |-> <<"c">>]>>
                  ELSE <<>>]

InitMdTables ==
    /\ page_map \in TablePageMaps
    /\ metadata = [filename |-> <<"n", ".", "m", "d">>, loading_method |-> "plain"]
    /\ call = NoCall
    /\ result = NoResult
    /\ first = NoCall
    /\ clock = 0
    /\ LoadingServiceInit

\* a caller invokes parse_document with text_and_tables on a Markdown source
ParseMdTables ==
    /\ call = NoCall
    /\ \E tables \in TableLists :
           ParseCall("parse_document", TableSource(tables, TRUE), "text_and_tables")
    /\ UNCHANGED first

\* a caller invokes parse_document with full_parse on a Markdown source
ParseMdFull ==
    /\ call = NoCall
    /\ \E tables \in TableLists, partitions \in BOOLEAN :
           ParseCall("parse_document", TableSource(tables, partitions), "full_parse")
    /\ UNCHANGED first

NextMdTables == ParseMdTables \/ ParseMdFull

SpecMdTables == InitMdTables /\ [][NextMdTables]_vars

\* a Markdown call whose source rendered and held at least one table
MdTablesFound ==
    /\ Parsed /\ call.method \in SourceMethods /\ FileType(metadata) = "markdown"
    /\ call.src.renders /\ call.src.tables # <<>>

\* C18: in the Markdown branch of text_and_tables with at least one table
\* detected, no emitted text element contains the non-empty flattened text
\* of any detected table, whatever the order and overlap of the table texts
\* in the page text; text elements are emitted in page order, only for pages
\* whose remaining text is not blank.
C18_NoTableTextRemains ==
    (MdTablesFound /\ call.method = "text_and_tables")
        => LET texts == OfType(Content, "text")
           IN  /\ \A i \in DOMAIN texts : \A t \in DOMAIN call.src.tables :
                     GetText(call.src.tables[t]) # <<>>
                         => ~Contains(texts[i].content, GetText(call.src.tables[t]))
               /\ \A i, j \in DOMAIN texts : i < j => texts[i].page < texts[j].page
               /\ \A i \in DOMAIN texts :
                     /\ Strip(texts[i].content) # <<>>
                     /\ \E p \in DOMAIN Pages : Pages[p].page = texts[i].page

\* the page records whose text contains s
PagesWith(s) == {p \in DOMAIN Pages : Contains(Pages[p].text, s)}

\* C19: in the Markdown branches of text_and_tables and full_parse the page
\* of each table element is the page number of the first page record, in
\* Page Model order, whose text contains the table's flattened text, and 1
\* when no page contains it; the table elements come in document order with
\* table_index 1..k, before any other element.
C19_TablePageIsFirstMatch ==
    MdTablesFound
        => LET k == Len(call.src.tables)
           IN  /\ Len(Content) >= k
               /\ \A i \in 1..k :
                     LET s == GetText(call.src.tables[i])
                     IN  /\ Content[i].type = "table"
                         /\ Content[i].table_index = i
                         /\ Content[i].content = _html_table_to_markdown(call.src.tables[i])
                         /\ Content[i].page = IF PagesWith(s) = {} THEN 1
                                               ELSE Pages[SetMin(PagesWith(s))].page
               /\ \A i \in (k + 1)..Len(Content) : Content[i].type # "table"

\* two tables and two pages that both hold the first table's text, none the
\* second's: the first table is on the first record's page, the second on
\* page 1, and a text element follows them
C19_Witness ==
    /\ MdTablesFound
    /\ Len(call.src.tables) = 2 /\ Len(Pages) = 2
    /\ PagesWith(GetText(call.src.tables[1])) = {1, 2}
    /\ PagesWith(GetText(call.src.tables[2])) = {}
    /\ Content[1].page = Pages[1].page /\ Pages[1].page # 1
    /\ Content[2].page = 1
    /\ Len(Content) > 2 /\ Content[3].type = "text"

----------------------------------------------------------------------------
(* _html_table_to_markdown on tables with and without thead and tbody.     *)

MaxTrs == 2   \* <tr> elements of one section of a table

\* a header row, a body row, a row of both kinds of cell, a row without cells
TrPool ==
    { <<Th(<<"H">>)>>, <<Td(<<"1">>)>>, <<Th(<<" ", "a">>), Td(<<"b", " ">>)>>, <<>> }

TrLists == UNION {[1..n -> TrPool] : n \in 0..MaxTrs}

HtmlSection(kind, rows) == [kind |-> kind, rows |-> rows]

\* two sections of a table that holds at most MaxTrs + 1 rows
SectionPairs(first_kind, second_kind) ==
    UNION {{<<HtmlSection(first_kind, hs), HtmlSection(second_kind, bs)>> :
               bs \in {rs \in TrLists : Len(rs) <= MaxTrs + 1 - Len(hs)}} :
           hs \in TrLists}

\* the shapes a <table> takes: thead and tbody, either with rows outside
\* any section, one of the three alone, or nothing
HtmlSectionLists ==
    {<<>>}
        \cup {<<HtmlSection(k, rs)>> : k \in {"thead", "tbody", "bare"}, rs \in TrLists}
        \cup SectionPairs("thead", "tbody")
        \cup SectionPairs("thead", "bare")
        \cup SectionPairs("bare", "tbody")

HtmlTables == {[gap |-> <<>>, sections |-> ss] : ss \in HtmlSectionLists}

\* a caller converts an HTML table
HtmlTableToMarkdown ==
    /\ call = NoCall
    /\ \E table \in HtmlTables :
          /\ call' = [op |-> "_html_table_to_markdown", table |-> table]
          /\ result' = [status |-> "ok", value |-> _html_table_to_markdown(table)]
    /\ clock' = clock + 1
    /\ UNCHANGED <<page_map, metadata, first, total_pages, current_page_map>>

SpecHtmlTable == InitTable /\ [][HtmlTableToMarkdown]_vars

\* the sections of a kind, and every <tr> of the table in document order
Has(table, kind) == \E i \in DOMAIN table.sections : table.sections[i].kind = kind
FirstOf(table, kind) ==
    table.sections[SetMin({i \in DOMAIN table.sections : table.sections[i].kind = kind})]
Trs(table) == Flatten([i \in DOMAIN table.sections |-> table.sections[i].rows])

\* the trimmed texts of the cells of a row that carry one of the tags
TextsOf(row, tags) ==
    LET cells == SelectSeq(row, LAMBDA c : c.tag \in tags)
    IN  [i \in DOMAIN cells |-> Strip(cells[i].text)]

\* the grid as the claim describes it
GridHeader(table) ==
    IF Has(table, "thead")
    THEN <<TextsOf(Flatten(FirstOf(table, "thead").rows), {"th"})>>
    ELSE IF Trs(table) # <<>> THEN <<TextsOf(Trs(table)[1], {"th", "td"})>>
    ELSE <<>>
GridBody(table) ==
    LET from == IF Has(table, "tbody") THEN FirstOf(table, "tbody").rows
                ELSE SubSeq(Trs(table), 2, Len(Trs(table)))
    IN  SelectSeq([i \in DOMAIN from |-> TextsOf(from[i], {"td"})], LAMBDA r : r # <<>>)

\* C21: _html_table_to_markdown builds the grid, for all four combinations
\* of thead and tbody: the header row is the th cells of thead if there is a
\* thead, otherwise the cells of the first tr; the body rows are the td rows
\* of tbody if there is a tbody, otherwise the td rows of every tr after the
\* first; body rows without cells are dropped; the grid is canonicalized by
\* _convert_to_markdown_table, the empty string for a grid without rows.
C21_HtmlGrid ==
    call.op = "_html_table_to_markdown"
        => LET grid == GridHeader(call.table) \o GridBody(call.table)
           IN  /\ result.value = _convert_to_markdown_table(grid)
               /\ grid = <<>> => result.value = <<>>
               /\ grid # <<>> => Len(PySplit(result.value, <<"\n">>)) = Len(grid) + 1

\* a thead and rows outside any section, one of them without td cells: the
\* header, the separator and fewer body lines than rows
C21_Witness ==
    /\ call.op = "_html_table_to_markdown"
    /\ Has(call.table, "thead") /\ ~Has(call.table, "tbody")
    /\ Len(FirstOf(call.table, "thead").rows) = 1
    /\ Len(Trs(call.table)) = 3
    /\ Len(PySplit(result.value, <<"\n">>)) = 3

\* the <tr> elements the header is read from: those of the thead that hold a
\* th cell, or the first <tr> of the table when there is no thead
HeaderTrs(table) ==
    IF Has(table, "thead")
    THEN Cardinality({i \in DOMAIN FirstOf(table, "thead").rows :
                         TextsOf(FirstOf(table, "thead").rows[i], {"th"}) # <<>>})
    ELSE IF Trs(table) # <<>> THEN 1 ELSE 0

\* C23: in the output of _html_table_to_markdown every source row gives at
\* most one line: the row used as the header is not emitted again as a body
\* row, with or without thead and tbody, in particular for a table with a
\* tbody and no thead.  With a header read from at least one row, the lines
\* other than the separator are then no more than the rows of the table.
C23_RowEmittedOnce ==
    (call.op = "_html_table_to_markdown" /\ HeaderTrs(call.table) >= 1)
        => Len(PySplit(result.value, <<"\n">>)) - 1 <= Len(Trs(call.table))

====
